---------------------------- MODULE Spec2Model ----------------------------
(***************************************************************************)
(* Bloxfolio backend (Convex functions) with the client flows that drive   *)
(* them:                                                                   *)
(*   - the bargain subsystem (bargain.ts: startSession, sendMessage and    *)
(*     its internal mutations addUserMessage / addResponseAndUpdateMood);  *)
(*   - the streaming relay (portfolio.ts: runOpenRouterCompletion,         *)
(*     createStream, appendStream);                                        *)
(*   - the pure functions of portfolio.ts that turn the model's text into  *)
(*     a portfolio (parseModelJson, normalizeGeneratedPayload);            *)
(*   - the payments (payments.ts: recordPayment, checkPaymentStatus; the   *)
(*     route /stripe-webhook of http.ts with verifyStripeSignature);       *)
(*   - publishing (portfolio.ts: savePortfolio, publishPortfolio).         *)
(* A Convex query or mutation is one transaction, hence one atomic step.   *)
(* An action is not: every ctx.runQuery / ctx.runMutation / fetch of an    *)
(* action is a step of its own, and other functions run in between.        *)
(***************************************************************************)
EXTENDS Integers, Sequences, FiniteSets, TLC

VARIABLES
    bargainSessions,  \* table bargainSessions: document id -> document
    nextSessionId,    \* the id the next ctx.db.insert("bargainSessions") gets
    calls,            \* sendMessage invocations: call id -> position and locals
    moodPeak,         \* history: document id -> highest mood the document ever held
    apiKeySet,        \* process.env.OPENROUTER_API_KEY is set and non-blank
    lastOp,           \* the function step taken last and what its caller saw
    streams,          \* table streams: the StreamRecords
    runs,             \* generatePortfolioCopy / revisePortfolioCopy invocations
    clock,            \* Date.now(), in ms
    norm,             \* normalizeGeneratedPayload: its argument and its results
    extract,          \* parseModelJson: its argument and its result
    scan,             \* collectBalancedJsonObjects: its argument and its locals
    checkout,         \* createCheckoutSession: STRIPE_SECRET_KEY and the last call
    payments,         \* table payments
    webhookSecret,    \* process.env.STRIPE_WEBHOOK_SECRET, trimmed
    deliveries,       \* /stripe-webhook requests that have called recordPayment
    lastDelivery,     \* the /stripe-webhook step taken last and its response
    portfolios,       \* table portfolios
    lastPublish       \* the publishPortfolio call made last and its outcome

bargainVars == <<bargainSessions, nextSessionId, calls, moodPeak, lastOp>>

streamVars == <<streams, runs, clock>>

\* the variables of the other parts
siteVars == <<payments, webhookSecret, deliveries, lastDelivery, portfolios, lastPublish,
              checkout>>

otherVars == <<norm, extract, scan, payments, webhookSecret, deliveries, lastDelivery, portfolios,
               lastPublish, checkout>>

vars == <<bargainSessions, nextSessionId, calls, moodPeak, apiKeySet, lastOp,
          streams, runs, clock, norm, extract, scan, payments, webhookSecret, deliveries,
          lastDelivery, portfolios, lastPublish, checkout>>

-----------------------------------------------------------------------------
(* Bounds of the model *)

\* sendMessage invocations per behaviour
MaxCalls == 2
\* successful startSession calls per behaviour
MaxStarts == 1

-----------------------------------------------------------------------------
(* bargain.ts: constants *)

MOOD_THRESHOLD == 80
MAX_MESSAGES == 50
MAX_MOOD == 100
MIN_MOOD == 0
START_MOOD == 20
MAX_MESSAGE_LENGTH == 400
\* the clamp of moodChange in sendMessage
MIN_MOOD_CHANGE == -15
MAX_MOOD_CHANGE == 12

Max(a, b) == IF a >= b THEN a ELSE b
Min(a, b) == IF a <= b THEN a ELSE b

-----------------------------------------------------------------------------
(* Users and tokens *)

Users == {"u1", "u2"}
NoUser == "none"

\* Tokens a caller may present: one live auth session per user, and one token
\* that has no live auth session (unknown, expired or blank).
Tokens == {"tok1", "tok2", "stale"}

\* auth.ts lookupUserByToken: the user of a live auth session, else null.
lookupUserByToken(token) ==
    CASE token = "tok1" -> "u1"
      [] token = "tok2" -> "u2"
      [] OTHER -> NoUser

-----------------------------------------------------------------------------
(* Message texts.  A text is a token of the model; what the code computes   *)
(* on it (trim, length, truthiness) is tabulated per token.                 *)

INTRO_TEXT == "INTRO"
INTRO_MESSAGE == [role |-> "assistant", text |-> INTRO_TEXT]

\* args.message of sendMessage: blank, padded, 401 characters
UserInputs == {"   ", " deal? ", "x401"}

\* String.prototype.trim
Trim(s) ==
    CASE s = "   " -> ""
      [] s = " deal? " -> "deal?"
      [] OTHER -> s

\* String.prototype.length
Length(s) ==
    CASE s = "" -> 0
      [] s = "   " -> 3
      [] s = " deal? " -> 7
      [] s = "deal?" -> 5
      [] s = "x401" -> 401
      [] OTHER -> 1

\* the fixed assistant texts of sendMessage
TEXT_NO_KEY == "FOGGY"
TEXT_HTTP_ERROR == "GLITCH"
TEXT_SILENT == "SILENT"
TEXT_SCRATCH == "SCRATCH"
TEXT_DOTS == "..."


-----------------------------------------------------------------------------
(* The LLM provider.  What it answers to one request of sendMessage is an   *)
(* input of the model: fetch may reject, the status may be a failure, the   *)
(* body may not be JSON, and choices[0].message.content may be anything.    *)
(* A number the reply carries is kept in tenths, so that Math.round has     *)
(* something to round.                                                      *)

\* kind: "reject"   fetch rejects (network failure)
\*       "status"   response.ok is false
\*       "badbody"  response.json() throws
\*       "nostring" the content is missing or not a string
\*       "nomatch"  the content is a string without {...}
\*       "invalid"  the content has {...} that JSON.parse rejects
\*       "json"     the content has {...} that JSON.parse accepts
\* content: the content string (kinds nomatch, invalid)
\* response: parsed.response as the code uses it: a string, "" for a falsy
\*       value, NonString for a truthy value that is no string
\* numeric, tenths: parsed.moodChange is a number, and its value in tenths
NonString == "<non-string>"

Reply(kind, content, response, numeric, tenths) ==
    [kind |-> kind, content |-> content, response |-> response,
     numeric |-> numeric, tenths |-> tenths]

ReplyNumbers == {-200, -155, 46, 125}

\* the replies that move the mood to its bounds and across the threshold
MoodReplies ==
    { Reply("json", "", "REPLY", TRUE, t) : t \in {-155, 125} }

LlmReplies ==
    { Reply(k, "", "", FALSE, 0) : k \in {"reject", "status", "badbody", "nostring"} }
    \cup { Reply("nomatch", c, "", FALSE, 0) : c \in {"   ", " no deal "} }
    \cup { Reply("invalid", "{oops}", "", FALSE, 0) }
    \cup { Reply("json", "", "REPLY", TRUE, t) : t \in ReplyNumbers }
    \cup { Reply("json", "", "", FALSE, 0), Reply("json", "", NonString, TRUE, 46) }

\* String.prototype.trim on the contents above
TrimContent(s) ==
    CASE s = "   " -> ""
      [] s = " no deal " -> "no deal"
      [] OTHER -> s

\* Math.round of a number given in tenths: the nearest integer, halves up
MathRound(tenths) == (tenths + 5) \div 10

\* variant of ClampMoodChange without the Math.max(-15, ...)
ClampMoodChangeNoFloor(tenths) == Min(MAX_MOOD_CHANGE, MathRound(tenths))

\* sendMessage, "Clamp mood change to safe range"
ClampMoodChange(tenths) ==
    Max(MIN_MOOD_CHANGE, Min(MAX_MOOD_CHANGE, MathRound(tenths)))

\* sendMessage, "Parse the AI response JSON": the text of the assistant message
AiResponse(r) ==
    CASE r.kind = "json" -> (IF r.response = "" THEN TEXT_DOTS ELSE r.response)
      [] r.kind = "nomatch" ->
            (IF TrimContent(r.content) = "" THEN TEXT_SILENT ELSE TrimContent(r.content))
      [] r.kind = "invalid" ->
            (IF TrimContent(r.content) = "" THEN TEXT_SCRATCH ELSE TrimContent(r.content))
      [] OTHER -> TEXT_SILENT

\* sendMessage, the moodChange handed to addResponseAndUpdateMood
AiMoodChange(r) ==
    IF r.kind = "json" /\ r.numeric THEN ClampMoodChange(r.tenths) ELSE ClampMoodChange(0)

-----------------------------------------------------------------------------
(* Table bargainSessions *)

\* document ids: two for the sessions a behaviour may start with, one per startSession
SessionIds == 1..(2 + MaxStarts)
CallIds == 1..MaxCalls

Doc(id, userId, mood, messages, discountUnlocked, messageCount) ==
    [id |-> id, userId |-> userId, mood |-> mood, messages |-> messages,
     discountUnlocked |-> discountUnlocked, messageCount |-> messageCount]

\* ctx.db.get(sessionId): the set holding the document, or the empty set
DbGet(table, id) == { d \in table : d.id = id }

\* query("bargainSessions").withIndex("by_userId", q => q.eq("userId", u)).collect()
ByUserId(table, u) == { d \in table : d.userId = u }

\* variant of ClampMood without the Math.min(MAX_MOOD, ...) of line 163
ClampMoodNoCeiling(m) == Max(MIN_MOOD, m)

\* line 163: Math.max(MIN_MOOD, Math.min(MAX_MOOD, ...))
ClampMood(m) == Max(MIN_MOOD, Min(MAX_MOOD, m))

\* the discountUnlocked that addResponseAndUpdateMood writes
UnlockedFor(oldDoc, newMood) == newMood >= MOOD_THRESHOLD

\* internalMutation addUserMessage
addUserMessage(table, id, text) ==
    { IF d.id = id
        THEN [d EXCEPT !.messages = Append(@, [role |-> "user", text |-> text]),
                       !.messageCount = @ + 1]
        ELSE d : d \in table }

\* internalMutation addResponseAndUpdateMood
addResponseAndUpdateMood(table, id, responseText, moodChange) ==
    { IF d.id = id
        THEN LET newMood == ClampMood(d.mood + moodChange)
             IN  [d EXCEPT !.messages = Append(@, [role |-> "assistant", text |-> responseText]),
                           !.mood = newMood,
                           !.discountUnlocked = UnlockedFor(d, newMood)]
        ELSE d : d \in table }

\* history: the highest mood each document has held
PeakAfter(table) ==
    [i \in SessionIds |->
        IF DbGet(table, i) = {} THEN moodPeak[i]
        ELSE Max(moodPeak[i], (CHOOSE d \in DbGet(table, i) : TRUE).mood)]


-----------------------------------------------------------------------------
(* Tables a behaviour may start from.  Besides the empty table: a session  *)
(* of user u1 as a sequential conversation of n exchanges leaves it (n user *)
(* messages, each answered by a parsed reply, the mood changes, each one of *)
(* 0, +5 and +12, adding up without the mood reaching MOOD_THRESHOLD on the *)
(* way: 60 = 20 + 8*5 and 79 = 20 + 2*12 + 7*5), and beside it the session  *)
(* user u2 has just started.                                                *)

RECURSIVE SeedLog(_)
SeedLog(n) ==
    IF n = 0 THEN <<INTRO_MESSAGE>>
    ELSE SeedLog(n - 1) \o <<[role |-> "user", text |-> "deal?"],
                             [role |-> "assistant", text |-> "REPLY"]>>

SeedSession(id, user, n, mood) == Doc(id, user, mood, SeedLog(n), FALSE, n)

SeedTables ==
    { {},
      { SeedSession(1, "u1", MAX_MESSAGES - 1, 79) },
      { SeedSession(1, "u1", MAX_MESSAGES, 60), SeedSession(2, "u2", 0, START_MOOD) } }

-----------------------------------------------------------------------------
(* What the caller of the last step saw *)

\* op: the function; user: the authenticated user (startSession);
\* sessionId: the document written (startSession, respond); kind: the kind of
\* LLM reply handled (respond); moodChange: what addResponseAndUpdateMood was
\* given (respond); result: OK, or the error thrown to the caller
Op(op, user, sessionId, kind, moodChange, result) ==
    [op |-> op, user |-> user, sessionId |-> sessionId, kind |-> kind,
     moodChange |-> moodChange, result |-> result]

ERR_UNAUTHORIZED == "Unauthorized"
ERR_EMPTY == "Message cannot be empty."
ERR_TOO_LONG == "Message too long."
ERR_NO_SESSION == "No bargain session found."
ERR_LIMIT == "You've hit the message limit."
ERR_UNLOCKED == "Discount already unlocked!"
ERR_FETCH == "fetch failed"
ERR_BODY == "response.json() failed"
ERR_VALIDATION == "ArgumentValidationError"
OK == "ok"

IdleCall == [pc |-> "idle", sessionId |-> 0, message |-> "", snapMood |-> 0, snapCount |-> 0]
DoneCall == [pc |-> "done", sessionId |-> 0, message |-> "", snapMood |-> 0, snapCount |-> 0]

BargainInit ==
    /\ bargainSessions \in SeedTables
    /\ nextSessionId = Cardinality(bargainSessions) + 1
    /\ calls = [c \in CallIds |-> IdleCall]
    /\ moodPeak = [i \in SessionIds |->
                      IF DbGet(bargainSessions, i) = {} THEN 0
                      ELSE (CHOOSE d \in DbGet(bargainSessions, i) : TRUE).mood]
    /\ apiKeySet \in BOOLEAN
    /\ lastOp = Op("init", NoUser, 0, "", 0, OK)

-----------------------------------------------------------------------------
(* mutation startSession *)

\* variant of startSessionTable without the delete loop of lines 111-117
startSessionKeepsOld(table, user, id) ==
    table \cup { Doc(id, user, START_MOOD, <<INTRO_MESSAGE>>, FALSE, 0) }

\* the table after startSession of `user`, the new document getting `id`
startSessionTable(table, user, id) ==
    (table \ ByUserId(table, user))
        \cup { Doc(id, user, START_MOOD, <<INTRO_MESSAGE>>, FALSE, 0) }

StartSession(token) ==
    LET user == lookupUserByToken(token) IN
    IF user = NoUser
    THEN /\ lastOp' = Op("startSession", NoUser, 0, "", 0, ERR_UNAUTHORIZED)
         /\ UNCHANGED <<bargainSessions, nextSessionId, calls, moodPeak, apiKeySet, streams, runs, clock, otherVars>>
    ELSE /\ nextSessionId \in SessionIds
         /\ bargainSessions' = startSessionTable(bargainSessions, user, nextSessionId)
         /\ nextSessionId' = nextSessionId + 1
         /\ moodPeak' = [i \in SessionIds |->
                            IF DbGet(bargainSessions', i) = {} THEN 0
                            ELSE IF i = nextSessionId THEN START_MOOD ELSE moodPeak[i]]
         /\ lastOp' = Op("startSession", user, nextSessionId, "", 0, OK)
         /\ UNCHANGED <<calls, apiKeySet, streams, runs, clock, otherVars>>

-----------------------------------------------------------------------------
(* action sendMessage *)

\* variant of AtMessageLimit with > for the >= of line 197
AtMessageLimitOffByOne(session) == session.messageCount > MAX_MESSAGES

\* the limit check of sendMessage
AtMessageLimit(session) == session.messageCount >= MAX_MESSAGES

\* sendMessage up to its first mutation: the error it throws, or OK
SendMessageCheck(table, token, message, sessionId) ==
    LET user == lookupUserByToken(token)
        trimmed == Trim(message)
        found == DbGet(table, sessionId)
        session == CHOOSE d \in found : TRUE
    IN  CASE user = NoUser -> ERR_UNAUTHORIZED
          [] trimmed = "" -> ERR_EMPTY
          [] Length(trimmed) > MAX_MESSAGE_LENGTH -> ERR_TOO_LONG
          [] found = {} -> ERR_NO_SESSION
          [] session.userId # user -> ERR_UNAUTHORIZED
          [] AtMessageLimit(session) -> ERR_LIMIT
          [] session.discountUnlocked -> ERR_UNLOCKED
          [] OTHER -> OK

\* sendMessage, lines 181-202: authentication, validation, the session query
\* and the checks on what it returned
SendMessage(c, token, message, sessionId) ==
    LET res == SendMessageCheck(bargainSessions, token, message, sessionId)
        session == CHOOSE d \in DbGet(bargainSessions, sessionId) : TRUE
    IN  /\ calls[c].pc = "idle"
        /\ IF c = 1 THEN TRUE ELSE calls[c - 1].pc # "idle"
        /\ calls' = [calls EXCEPT ![c] =
                        IF res = OK
                        THEN [pc |-> "checked", sessionId |-> sessionId,
                              message |-> Trim(message),
                              snapMood |-> session.mood,
                              snapCount |-> session.messageCount]
                        ELSE IdleCall]
        /\ lastOp' = Op("sendMessage", NoUser, 0, "", 0, res)
        /\ UNCHANGED <<bargainSessions, nextSessionId, moodPeak, apiKeySet, streams, runs, clock, otherVars>>

\* sendMessage, lines 205-255: runMutation(addUserMessage); then, with an API
\* key, the request to the LLM is issued, its system prompt embedding
\* session.mood and session.messageCount of the earlier query
AddUserMessage(c) ==
    /\ calls[c].pc = "checked"
    /\ bargainSessions' = addUserMessage(bargainSessions, calls[c].sessionId, calls[c].message)
    /\ calls' = [calls EXCEPT ![c].pc = IF apiKeySet THEN "fetching" ELSE "nokey"]
    /\ lastOp' = Op("addUserMessage", NoUser, 0, "", 0, OK)
    /\ UNCHANGED <<nextSessionId, moodPeak, apiKeySet, streams, runs, clock, otherVars>>

\* sendMessage, lines 219-228: no API key, the fallback response
RespondNoKey(c) ==
    /\ calls[c].pc = "nokey"
    /\ bargainSessions' =
          addResponseAndUpdateMood(bargainSessions, calls[c].sessionId, TEXT_NO_KEY, 0)
    /\ moodPeak' = PeakAfter(bargainSessions')
    /\ calls' = [calls EXCEPT ![c] = DoneCall]
    /\ lastOp' = Op("respond", NoUser, calls[c].sessionId, "nokey", 0, OK)
    /\ UNCHANGED <<nextSessionId, apiKeySet, streams, runs, clock, otherVars>>

\* what sendMessage does with reply r: the error it throws, or OK
ReceiveResult(r) ==
    CASE r.kind = "reject" -> ERR_FETCH
      [] r.kind = "badbody" -> ERR_BODY
      [] r.kind = "json" /\ r.response = NonString -> ERR_VALIDATION
      [] OTHER -> OK

\* sendMessage, lines 240-303: the reply arrives and is handled
Receive(c, r) ==
    LET res == ReceiveResult(r)
        text == IF r.kind = "status" THEN TEXT_HTTP_ERROR ELSE AiResponse(r)
        moodChange == IF r.kind = "status" THEN 0 ELSE AiMoodChange(r)
    IN  /\ calls[c].pc = "fetching"
        /\ bargainSessions' =
              IF res = OK
              THEN addResponseAndUpdateMood(bargainSessions, calls[c].sessionId, text, moodChange)
              ELSE bargainSessions
        /\ moodPeak' = PeakAfter(bargainSessions')
        /\ calls' = [calls EXCEPT ![c] = DoneCall]
        /\ lastOp' = Op("respond", NoUser, calls[c].sessionId, r.kind,
                        IF res = OK THEN moodChange ELSE 0, res)
        /\ UNCHANGED <<nextSessionId, apiKeySet, streams, runs, clock, otherVars>>

-----------------------------------------------------------------------------
(* portfolio.ts: the streaming relay.  A text is a sequence of characters.  *)

\* frames (lines) the provider sends per run
MaxFrames == 3

\* the clock runs in steps of TickMs up to MaxClock
TickMs == 100
MaxClock == 600

\* runOpenRouterCompletion, "Batch mutations every 200ms"
BATCH_MS == 200

RunIds == {1}

\* the error-tagged chunk "\n\n[Error from AI Provider: <status>]"
ERROR_CHUNK == <<"E">>

IsPrefix(s, t) == Len(s) <= Len(t) /\ SubSeq(t, 1, Len(s)) = s

\* One line of the response body, after the split at "\n" and trim:
\*   "blank"     an empty line
\*   "sentinel"  data: [DONE]
\*   "comment"   a line that does not start with "data: "
\*   "malformed" a data: line whose payload JSON.parse rejects, or whose
\*               payload is no object (the property access throws); content
\*               is then the text the payload was cut off in
\*   "data"      a data: line whose payload parses; reasoning and content are
\*               choices[0].delta.reasoning / .content, empty when absent
Frame(kind, reasoning, content) ==
    [kind |-> kind, reasoning |-> reasoning, content |-> content]

Frames ==
    { Frame(k, <<>>, <<>>) : k \in {"blank", "sentinel", "comment", "malformed", "data"} }
    \cup { Frame("data", <<>>, <<"{">>), Frame("data", <<>>, <<"}">>),
           Frame("data", <<"x">>, <<"{">>), Frame("malformed", <<>>, <<"x">>) }

\* runOpenRouterCompletion, lines 442-448: the chunk text of a parsed frame
ChunkText(f) == f.reasoning \o f.content

\* variant of FrameText that takes the text of a malformed frame
FrameTextOfAny(f) == ChunkText(f)

\* lines 435-450: the text a line adds to fullContent and pendingAppend
FrameText(f) == IF f.kind = "data" THEN ChunkText(f) ELSE <<>>

\* variant of FlushDue without the test of the time
FlushDueAlways(streamId, now, lastMutationTime) == streamId # 0

\* line 455: the in-loop flush condition
FlushDue(streamId, now, lastMutationTime) ==
    streamId # 0 /\ now - lastMutationTime > BATCH_MS

\* variant of PendingAfter without the reset of line 462
PendingAfterKept(pending, flushed) == pending

\* lines 452-463: pendingAppend after a line, emptied by a flush
PendingAfter(pending, flushed) == IF flushed THEN <<>> ELSE pending

StreamDoc(id, userId, purpose, text, state) ==
    [id |-> id, userId |-> userId, purpose |-> purpose, text |-> text, state |-> state]

\* variant of AppendState that ignores isDone
AppendStateIgnoresDone(old, isDone, isError) ==
    IF isError THEN "error" ELSE old

\* appendStream: the state it writes
AppendState(old, isDone, isError) ==
    IF isError THEN "error" ELSE IF isDone THEN "completed" ELSE old

\* variant of appendStream that puts the chunk in front of the text
appendStreamPrepends(table, id, textChunk, isDone, isError) ==
    { IF d.id = id
        THEN [d EXCEPT !.text = textChunk \o @,
                       !.state = AppendState(@, isDone, isError)]
        ELSE d : d \in table }

\* variant of appendStream that leaves a completed or error document alone
appendStreamRejectsTerminal(table, id, textChunk, isDone, isError) ==
    { IF d.id = id /\ d.state = "streaming"
        THEN [d EXCEPT !.text = @ \o textChunk,
                       !.state = AppendState(@, isDone, isError)]
        ELSE d : d \in table }

\* internalMutation appendStream
appendStream(table, id, textChunk, isDone, isError) ==
    { IF d.id = id
        THEN [d EXCEPT !.text = @ \o textChunk,
                       !.state = AppendState(@, isDone, isError)]
        ELSE d : d \in table }

\* mutation createStream: the inserted document
createStream(id, user, purpose) == StreamDoc(id, user, purpose, <<>>, "streaming")

-----------------------------------------------------------------------------
(* collectBalancedJsonObjects and parseModelJson, on the characters a       *)
(* stream of the model carries: "{", "}" and "x".                           *)

RECURSIVE Scan(_, _, _, _, _, _, _)
Scan(raw, i, depth, startIndex, inString, isEscaped, objects) ==
    IF i > Len(raw) THEN objects
    ELSE LET char == raw[i] IN
         IF inString
         THEN IF isEscaped THEN Scan(raw, i + 1, depth, startIndex, TRUE, FALSE, objects)
              ELSE IF char = "\\" THEN Scan(raw, i + 1, depth, startIndex, TRUE, TRUE, objects)
              ELSE IF char = "\"" THEN Scan(raw, i + 1, depth, startIndex, FALSE, FALSE, objects)
              ELSE Scan(raw, i + 1, depth, startIndex, TRUE, FALSE, objects)
         ELSE IF char = "\"" THEN Scan(raw, i + 1, depth, startIndex, TRUE, isEscaped, objects)
         ELSE IF char = "{"
              THEN Scan(raw, i + 1, depth + 1, IF depth = 0 THEN i ELSE startIndex,
                        FALSE, isEscaped, objects)
         ELSE IF char = "}" /\ depth > 0
              THEN IF depth - 1 = 0 /\ startIndex >= 1
                   THEN Scan(raw, i + 1, 0, 0, FALSE, isEscaped,
                             Append(objects, SubSeq(raw, startIndex, i)))
                   ELSE Scan(raw, i + 1, depth - 1, startIndex, FALSE, isEscaped, objects)
         ELSE Scan(raw, i + 1, depth, startIndex, FALSE, isEscaped, objects)

\* indices are 1-based here, so "no start" is 0 where the code has -1
collectBalancedJsonObjects(rawContent) == Scan(rawContent, 1, 0, 0, FALSE, FALSE, <<>>)

\* String.prototype.trim on a sequence of characters
RECURSIVE TrimStart(_)
TrimStart(s) == IF s # <<>> /\ Head(s) = " " THEN TrimStart(Tail(s)) ELSE s

RECURSIVE TrimEnd(_)
TrimEnd(s) ==
    IF s # <<>> /\ s[Len(s)] = " " THEN TrimEnd(SubSeq(s, 1, Len(s) - 1)) ELSE s

StrTrim(s) == TrimEnd(TrimStart(s))

(* JSON.parse on a text.  A text is a sequence of characters; the fence    *)
(* of three backticks ("fence") and the literals null and true count as    *)
(* one character each.                                                     *)

\* the character at index i, "" past the end
At(s, i) == IF i \in 1..Len(s) THEN s[i] ELSE ""

\* the first index from i on that holds no white space
RECURSIVE SkipSpace(_, _)
SkipSpace(s, i) == IF At(s, i) = " " THEN SkipSpace(s, i + 1) ELSE i

\* the index after the closing quote of the string whose body starts at i,
\* 0 when the text is no JSON string (no closing quote, bad escape)
RECURSIVE StringEnd(_, _)
StringEnd(s, i) ==
    CASE At(s, i) = "" -> 0
      [] At(s, i) = "\"" -> i + 1
      [] At(s, i) = "\\" ->
            IF At(s, i + 1) \in {"\"", "\\"} THEN StringEnd(s, i + 2) ELSE 0
      [] OTHER -> StringEnd(s, i + 1)

\* the index after the digits that start at i
RECURSIVE NumberEnd(_, _)
NumberEnd(s, i) == IF At(s, i) = "1" THEN NumberEnd(s, i + 1) ELSE i

\* the index after the JSON value that starts at i, 0 when there is none;
\* MembersEnd and ElementsEnd continue inside an object and an array
RECURSIVE ValueEnd(_, _)
RECURSIVE MembersEnd(_, _)
RECURSIVE ElementsEnd(_, _)

ValueEnd(s, i) ==
    CASE At(s, i) = "\"" -> StringEnd(s, i + 1)
      [] At(s, i) = "1" -> NumberEnd(s, i)
      [] At(s, i) \in {"null", "true"} -> i + 1
      [] At(s, i) = "{" ->
            IF At(s, SkipSpace(s, i + 1)) = "}" THEN SkipSpace(s, i + 1) + 1
            ELSE MembersEnd(s, SkipSpace(s, i + 1))
      [] At(s, i) = "[" ->
            IF At(s, SkipSpace(s, i + 1)) = "]" THEN SkipSpace(s, i + 1) + 1
            ELSE ElementsEnd(s, i + 1)
      [] OTHER -> 0

MembersEnd(s, i) ==
    IF At(s, i) # "\"" THEN 0
    ELSE LET keyEnd == StringEnd(s, i + 1)
             colon == SkipSpace(s, keyEnd)
         IN  IF keyEnd = 0 \/ At(s, colon) # ":" THEN 0
             ELSE LET valueEnd == ValueEnd(s, SkipSpace(s, colon + 1))
                      after == SkipSpace(s, valueEnd)
                  IN  IF valueEnd = 0 THEN 0
                      ELSE IF At(s, after) = "," THEN MembersEnd(s, SkipSpace(s, after + 1))
                      ELSE IF At(s, after) = "}" THEN after + 1
                      ELSE 0

ElementsEnd(s, i) ==
    LET valueEnd == ValueEnd(s, SkipSpace(s, i))
        after == SkipSpace(s, valueEnd)
    IN  IF valueEnd = 0 THEN 0
        ELSE IF At(s, after) = "," THEN ElementsEnd(s, after + 1)
        ELSE IF At(s, after) = "]" THEN after + 1
        ELSE 0

\* the type of JSON.parse(text), "SyntaxError" when it throws
JsonType(text) ==
    LET start == SkipSpace(text, 1)
        end == ValueEnd(text, start)
    IN  IF end = 0 \/ SkipSpace(text, end) # Len(text) + 1 THEN "SyntaxError"
        ELSE CASE At(text, start) = "{" -> "object"
               [] At(text, start) = "[" -> "array"
               [] At(text, start) = "\"" -> "string"
               [] At(text, start) = "1" -> "number"
               [] At(text, start) = "true" -> "boolean"
               [] OTHER -> "null"

\* a valid JSON text without the white space between its tokens: two texts
\* that differ in this only parse to the same value
RECURSIVE Compact(_, _, _)
Compact(text, i, inString) ==
    IF i > Len(text) THEN <<>>
    ELSE IF inString
         THEN IF text[i] = "\\"
              THEN <<text[i], At(text, i + 1)>> \o Compact(text, i + 2, TRUE)
              ELSE <<text[i]>> \o Compact(text, i + 1, text[i] # "\"")
         ELSE IF text[i] = " " THEN Compact(text, i + 1, FALSE)
              ELSE <<text[i]>> \o Compact(text, i + 1, text[i] = "\"")

\* JSON.parse(text): the type of the value and the value
JsonParse(text) ==
    [type |-> JsonType(text),
     value |-> IF JsonType(text) = "SyntaxError" THEN <<>> ELSE Compact(text, 1, FALSE)]

\* variant of AcceptsParsed without the !Array.isArray(parsed) of line 221
AcceptsParsedArrays(type) == type \in {"object", "array"}

\* line 221: parsed && typeof parsed === "object" && !Array.isArray(parsed)
AcceptsParsed(type) == type = "object"

\* JSON.parse(candidate) yields a non-array object
JsonParsesToObject(candidate) == AcceptsParsed(JsonType(candidate))

\* rawContent.slice(firstBrace, lastBrace + 1), or the empty set
OutermostBraces(raw) ==
    LET opens == { i \in 1..Len(raw) : raw[i] = "{" }
        closes == { i \in 1..Len(raw) : raw[i] = "}" }
    IN  IF opens = {} \/ closes = {} THEN {}
        ELSE LET firstBrace == CHOOSE i \in opens : \A j \in opens : i <= j
                 lastBrace == CHOOSE i \in closes : \A j \in closes : i >= j
             IN  IF lastBrace > firstBrace THEN { SubSeq(raw, firstBrace, lastBrace) } ELSE {}

\* line 187: trimmed.replace(/,\s*([\]}])/g, "$1")
RECURSIVE StripTrailingCommas(_, _)
StripTrailingCommas(text, i) ==
    IF i > Len(text) THEN <<>>
    ELSE IF text[i] = "," /\ At(text, SkipSpace(text, i + 1)) \in {"]", "}"}
         THEN StripTrailingCommas(text, SkipSpace(text, i + 1))
         ELSE <<text[i]>> \o StripTrailingCommas(text, i + 1)

\* lines 178-192: pushCandidate; seen holds what candidates holds
pushCandidate(candidates, candidate) ==
    LET trimmed == StrTrim(candidate)
        seen == { candidates[k] : k \in 1..Len(candidates) }
        noTrailingCommas == StripTrailingCommas(trimmed, 1)
    IN  IF trimmed = <<>> \/ trimmed \in seen THEN candidates
        ELSE IF noTrailingCommas # trimmed /\ noTrailingCommas \notin seen
             THEN candidates \o <<trimmed, noTrailingCommas>>
             ELSE Append(candidates, trimmed)

\* line 197: the groups match[1] of /```(?:json)?\s*([\s\S]*?)```/gi, in order
RECURSIVE FenceBodies(_, _)
FenceBodies(raw, from) ==
    LET fences == { i \in from..Len(raw) : raw[i] = "fence" }
    IN  IF Cardinality(fences) < 2 THEN <<>>
        ELSE LET open == CHOOSE i \in fences : \A j \in fences : i <= j
                 close == CHOOSE i \in fences \ {open} : \A j \in fences \ {open} : i <= j
             IN  <<TrimStart(SubSeq(raw, open + 1, close - 1))>> \o FenceBodies(raw, close + 1)

\* lines 194-216: the texts handed to pushCandidate, in order
RECURSIVE FenceTexts(_)
FenceTexts(bodies) ==
    IF bodies = <<>> THEN <<>>
    ELSE (IF Head(bodies) = <<>> THEN <<>>
          ELSE <<Head(bodies)>> \o collectBalancedJsonObjects(Head(bodies)))
         \o FenceTexts(Tail(bodies))

PushedTexts(rawContent) ==
    <<rawContent>> \o FenceTexts(FenceBodies(rawContent, 1))
        \o (IF OutermostBraces(rawContent) = {} THEN <<>>
            ELSE <<CHOOSE c \in OutermostBraces(rawContent) : TRUE>>)
        \o collectBalancedJsonObjects(rawContent)

RECURSIVE PushAll(_, _)
PushAll(candidates, texts) ==
    IF texts = <<>> THEN candidates
    ELSE PushAll(pushCandidate(candidates, Head(texts)), Tail(texts))

Candidates(rawContent) == PushAll(<<>>, PushedTexts(rawContent))

\* variant of parseModelJson that returns the last candidate that parses to a
\* non-array object
parseModelJsonLast(rawContent) ==
    LET candidates == Candidates(rawContent)
        accepted == { k \in 1..Len(candidates) : JsonParsesToObject(candidates[k]) }
    IN  IF accepted = {} THEN [returned |-> FALSE, type |-> "Error", value |-> <<>>]
        ELSE LET last == CHOOSE k \in accepted : \A j \in accepted : k >= j
             IN  [returned |-> TRUE,
                  type |-> JsonParse(candidates[last]).type,
                  value |-> JsonParse(candidates[last]).value]

\* parseModelJson(rawContent): the value of the first candidate that parses
\* to a non-array object (returned), or thrown
parseModelJson(rawContent) ==
    LET candidates == Candidates(rawContent)
        accepted == { k \in 1..Len(candidates) : JsonParsesToObject(candidates[k]) }
    IN  IF accepted = {} THEN [returned |-> FALSE, type |-> "Error", value |-> <<>>]
        ELSE LET first == CHOOSE k \in accepted : \A j \in accepted : k <= j
             IN  [returned |-> TRUE,
                  type |-> JsonParse(candidates[first]).type,
                  value |-> JsonParse(candidates[first]).value]

\* parseModelJson returns (TRUE) or throws (FALSE)
parseModelJsonReturns(rawContent) == parseModelJson(rawContent).returned

-----------------------------------------------------------------------------
(* A run: the client's startProgress (createStream), then the action        *)
(* generatePortfolioCopy or revisePortfolioCopy, which is                   *)
(* runOpenRouterCompletion after the checks of its handler.                 *)

\* userId is the caller; appends, flushTimes and skippedAt are history: the
\* appendStream calls made, the time the read loop started followed by the
\* times of the appends made in the loop, and the length of fullContent when
\* the last malformed frame was read (-1: none was).
IdleRun ==
    [pc |-> "idle", userId |-> NoUser, streamId |-> 0, fullContent |-> <<>>,
     pendingAppend |-> <<>>, lastMutationTime |-> 0, frames |-> 0, response |-> "",
     result |-> "", appends |-> <<>>, flushTimes |-> <<>>, skippedAt |-> 0 - 1]

\* the upstream answers
Responses == {"reject", "status", "nobody", "ok"}

\* The table a behaviour starts from: empty, or holding the StreamRecord an
\* earlier run of user u2 has completed with the text {}.
EarlierStream == StreamDoc(1, "u2", "generate", <<"{", "}">>, "completed")

StreamInit ==
    /\ streams \in { {}, {EarlierStream} }
    /\ runs = [r \in RunIds |-> IdleRun]
    /\ clock = 0

StreamOf(r) == { d \in streams : d.id = runs[r].streamId }

Tick ==
    /\ clock + TickMs <= MaxClock
    /\ clock' = clock + TickMs
    /\ UNCHANGED <<streams, runs, bargainSessions, nextSessionId, calls, moodPeak,
                   apiKeySet, lastOp, otherVars>>

\* App.tsx startProgress (createStream; a failure gives no stream), then the
\* handler of the action up to the call of runOpenRouterCompletion.  A caller
\* of the action may also leave streamId out.
StartRun(r, token, purpose, withStream) ==
    LET user == lookupUserByToken(token)
        id == Cardinality(streams) + 1
        made == user # NoUser /\ withStream
    IN  /\ runs[r].pc = "idle"
        /\ \A q \in RunIds : q < r => runs[q].pc # "idle"
        /\ streams' = IF made THEN streams \cup { createStream(id, user, purpose) }
                      ELSE streams
        /\ runs' = [runs EXCEPT ![r] =
                      IF user = NoUser \/ ~apiKeySet
                      THEN [IdleRun EXCEPT !.pc = "done", !.result = "error",
                                           !.userId = user,
                                           !.streamId = IF made THEN id ELSE 0]
                      ELSE [IdleRun EXCEPT !.pc = "fetching", !.userId = user,
                                           !.streamId = IF made THEN id ELSE 0]]
        /\ UNCHANGED <<clock, bargainSessions, nextSessionId, calls, moodPeak,
                       apiKeySet, lastOp, otherVars>>

\* runOpenRouterCompletion, lines 341-422: the response of the provider
Response(r, resp) ==
    LET run == runs[r] IN
    /\ run.pc = "fetching"
    /\ streams' = IF resp = "status" /\ run.streamId # 0
                  THEN appendStream(streams, run.streamId, ERROR_CHUNK, FALSE, TRUE)
                  ELSE streams
    /\ runs' = [runs EXCEPT ![r] =
                  IF resp = "ok"
                  THEN [run EXCEPT !.pc = "reading", !.response = resp,
                                   !.lastMutationTime = clock,
                                   !.flushTimes = <<clock>>]
                  ELSE [run EXCEPT !.pc = "done", !.response = resp, !.result = "error",
                                   !.appends = IF resp = "status" /\ run.streamId # 0
                                               THEN Append(@, "error") ELSE @]]
    /\ UNCHANGED <<clock, bargainSessions, nextSessionId, calls, moodPeak,
                   apiKeySet, lastOp, otherVars>>

\* lines 431-470: one line of the body
ReadFrame(r, f) ==
    LET run == runs[r]
        text == FrameText(f)
        full == run.fullContent \o text
        pending == run.pendingAppend \o text
        flush == text # <<>> /\ FlushDue(run.streamId, clock, run.lastMutationTime)
    IN  /\ run.pc = "reading"
        /\ run.frames < MaxFrames
        /\ streams' = IF flush
                      THEN appendStream(streams, run.streamId, pending, FALSE, FALSE)
                      ELSE streams
        /\ runs' = [runs EXCEPT ![r] =
                      [run EXCEPT !.frames = @ + 1,
                                  !.fullContent = full,
                                  !.pendingAppend = PendingAfter(pending, flush),
                                  !.lastMutationTime = IF flush THEN clock ELSE @,
                                  !.appends = IF flush THEN Append(@, "text") ELSE @,
                                  !.flushTimes = IF flush THEN Append(@, clock) ELSE @,
                                  !.skippedAt = IF f.kind = "malformed"
                                                THEN Len(run.fullContent) ELSE @]]
        /\ UNCHANGED <<clock, bargainSessions, nextSessionId, calls, moodPeak,
                       apiKeySet, lastOp, otherVars>>

\* line 426: reader.read() rejects (the connection breaks)
ReadError(r) ==
    /\ runs[r].pc = "reading"
    /\ runs' = [runs EXCEPT ![r].pc = "done", ![r].result = "error"]
    /\ UNCHANGED <<streams, clock, bargainSessions, nextSessionId, calls, moodPeak,
                   apiKeySet, lastOp, otherVars>>

\* lines 427, 473-480: the body ends; the pending buffer is flushed
FinalFlush(r) ==
    LET run == runs[r]
        flush == run.streamId # 0 /\ run.pendingAppend # <<>>
    IN  /\ run.pc = "reading"
        /\ streams' = IF flush
                      THEN appendStream(streams, run.streamId, run.pendingAppend, FALSE, FALSE)
                      ELSE streams
        /\ runs' = [runs EXCEPT ![r].pc = "finishing",
                                ![r].appends = IF flush THEN Append(@, "text") ELSE @]
        /\ UNCHANGED <<clock, bargainSessions, nextSessionId, calls, moodPeak,
                       apiKeySet, lastOp, otherVars>>

\* lines 482-492: the final append, then parseModelJson(fullContent)
FinalDone(r) ==
    LET run == runs[r] IN
    /\ run.pc = "finishing"
    /\ streams' = IF run.streamId # 0
                  THEN appendStream(streams, run.streamId, <<>>, TRUE, FALSE)
                  ELSE streams
    /\ runs' = [runs EXCEPT ![r].pc = "done",
                            ![r].result = IF parseModelJsonReturns(run.fullContent)
                                          THEN "ok" ELSE "error",
                            ![r].appends = IF run.streamId # 0 THEN Append(@, "done") ELSE @]
    /\ UNCHANGED <<clock, bargainSessions, nextSessionId, calls, moodPeak,
                   apiKeySet, lastOp, otherVars>>

NextStream ==
    \/ Tick
    \/ \E r \in RunIds, token \in Tokens, purpose \in {"generate", "revise"},
          withStream \in BOOLEAN : StartRun(r, token, purpose, withStream)
    \/ \E r \in RunIds, resp \in Responses : Response(r, resp)
    \/ \E r \in RunIds, f \in Frames : ReadFrame(r, f)
    \/ \E r \in RunIds : ReadError(r)
    \/ \E r \in RunIds : FinalFlush(r)
    \/ \E r \in RunIds : FinalDone(r)

-----------------------------------------------------------------------------
(* The actions called directly: args.streamId is whatever id of the table  *)
(* streams the caller passes, and the handlers hand it on unchecked.        *)

\* two invocations, which may overlap
DirectRunIds == {1, 2}

\* the StreamRecord user u1 has just created
FreshStream == createStream(2, "u1", "generate")

\* an id of the table streams that has no document
MISSING_STREAM == 3

\* the streamId of a call: the id of the document, the id without a document
StreamIdArgs == {FreshStream.id, MISSING_STREAM}

\* the lines the provider sends to these invocations, at most
\* MaxDirectFrames per invocation
DirectFrames == { Frame("data", <<>>, <<"{">>), Frame("data", <<>>, <<"}">>) }

MaxDirectFrames == 1

DirectInit ==
    /\ streams = {FreshStream}
    /\ runs = [r \in DirectRunIds |-> IdleRun]
    /\ clock = 0

\* generatePortfolioCopy / revisePortfolioCopy, the handler up to the call of
\* runOpenRouterCompletion(ctx, args.streamId, ...)
StartDirectRun(r, token, streamId) ==
    LET user == lookupUserByToken(token) IN
    /\ runs[r].pc = "idle"
    /\ \A q \in DirectRunIds : q < r => runs[q].pc # "idle"
    /\ runs' = [runs EXCEPT ![r] =
                  IF user = NoUser \/ ~apiKeySet
                  THEN [IdleRun EXCEPT !.pc = "done", !.result = "error",
                                       !.userId = user, !.streamId = streamId]
                  ELSE [IdleRun EXCEPT !.pc = "fetching", !.userId = user,
                                       !.streamId = streamId]]
    /\ UNCHANGED <<streams, clock, bargainSessions, nextSessionId, calls, moodPeak,
                   apiKeySet, lastOp, otherVars>>

\* time passes, longer than the batching interval
Wait ==
    /\ clock + BATCH_MS + TickMs <= MaxClock
    /\ clock' = clock + BATCH_MS + TickMs
    /\ UNCHANGED <<streams, runs, bargainSessions, nextSessionId, calls, moodPeak,
                   apiKeySet, lastOp, otherVars>>

NextDirect ==
    \/ Wait
    \/ \E r \in DirectRunIds, token \in Tokens, streamId \in StreamIdArgs :
          StartDirectRun(r, token, streamId)
    \/ \E r \in DirectRunIds, resp \in {"status", "ok"} : Response(r, resp)
    \/ \E r \in DirectRunIds, f \in DirectFrames :
          runs[r].frames < MaxDirectFrames /\ ReadFrame(r, f)
    \/ \E r \in DirectRunIds : FinalFlush(r)
    \/ \E r \in DirectRunIds : FinalDone(r)

-----------------------------------------------------------------------------
(* JavaScript values, as JSON.parse yields them and as the code builds     *)
(* them.  A string is the sequence of its characters; an object is the     *)
(* function from its keys to its values, and a key it lacks reads as       *)
(* undefined, as a property access does.                                   *)

V(type, payload) == [type |-> type, payload |-> payload]

Undefined == V("undefined", 0)
Null == V("null", 0)
Str(chars) == V("string", chars)
Num(n) == V("number", n)
Bool(b) == V("boolean", b)
Arr(items) == V("array", items)
Obj(fields) == V("object", fields)

\* what a call throws on a value it cannot handle
TypeError == V("TypeError", 0)

\* the truthiness of a value (Boolean(v), v || ..., v && ...)
Truthy(v) ==
    CASE v.type \in {"undefined", "null"} -> FALSE
      [] v.type = "string" -> v.payload # <<>>
      [] v.type = "number" -> v.payload # 0
      [] v.type = "boolean" -> v.payload
      [] OTHER -> TRUE

\* typeof v === "object" for a truthy v: an object or an array
IsObjectLike(v) == v.type \in {"object", "array"}

\* v.key
Get(v, key) ==
    IF v.type = "object" /\ key \in DOMAIN v.payload THEN v.payload[key] ELSE Undefined

\* v?.trim(): undefined for null and undefined, the trimmed string for a
\* string; any other value has no trim method and the call throws
OptionalTrim(v) ==
    CASE v.type \in {"undefined", "null"} -> Undefined
      [] v.type = "string" -> Str(StrTrim(v.payload))
      [] OTHER -> TypeError

\* v.trim(): as above, but null and undefined throw too
CallTrim(v) == IF v.type = "string" THEN Str(StrTrim(v.payload)) ELSE TypeError

\* a || b
OrElse(a, b) == IF Truthy(a) THEN a ELSE b

\* v?.trim() || fallback
TrimOr(v, fallback) ==
    IF OptionalTrim(v).type = "TypeError" THEN TypeError ELSE OrElse(OptionalTrim(v), fallback)

\* items.map((token) => token.trim()).filter(Boolean)
TrimAll(items) ==
    IF \E i \in 1..Len(items) : CallTrim(items[i]).type = "TypeError"
    THEN TypeError
    ELSE Arr(SelectSeq([i \in 1..Len(items) |-> CallTrim(items[i])], Truthy))

\* Array.isArray(v) && v.length > 0 ? v.map(trim).filter(Boolean) : fallback
TrimmedList(v, fallback) ==
    IF v.type = "array" /\ Len(v.payload) > 0 THEN TrimAll(v.payload) ELSE fallback

\* a fixed text of the code, kept in one piece
Text(t) == Str(<<t>>)

-----------------------------------------------------------------------------
(* normalizeGeneratedPayload *)

Threw(v) == v.type = "TypeError"

\* an object literal: TypeError when the evaluation of a property threw
Literal(fields) ==
    IF \E k \in DOMAIN fields : Threw(fields[k]) THEN TypeError ELSE Obj(fields)

\* the result of items.filter(...).map(f): TypeError when f threw on an item
Mapped(results) ==
    IF \E i \in 1..Len(results) : Threw(results[i]) THEN TypeError ELSE Arr(results)

\* .filter((item) => item && typeof item === "object")
ObjectItems(items) == SelectSeq(items, LAMBDA item : Truthy(item) /\ IsObjectLike(item))

DEFAULT_STACK == Arr(<<Text("LuaU"), Text("Roblox Studio")>>)
DEFAULT_SKILLS == Arr(<<Text("LuaU"), Text("Game Systems"), Text("Live Ops")>>)

\* lines 237-257: one element of highlightedProjects
NormalizeProject(project) ==
    Literal([name |-> TrimOr(Get(project, "name"), Text("Roblox Project")),
             summary |-> TrimOr(Get(project, "summary"), Text("Project summary pending.")),
             stack |-> TrimmedList(Get(project, "stack"), DEFAULT_STACK),
             impact |-> TrimOr(Get(project, "impact"), Text("Impact details pending.")),
             imageUrl |-> TrimOr(Get(project, "imageUrl"), Undefined),
             gameUrl |-> TrimOr(Get(project, "gameUrl"), Undefined)])

\* lines 263-269: one element of sectionBlocks
NormalizeSection(section) ==
    Literal([title |-> TrimOr(Get(section, "title"), Text("Section")),
             body |-> TrimOr(Get(section, "body"), Text("Section details pending."))])

\* lines 234-258: Array.isArray(v) ? v.filter(...).map(...) : []
NormalizeProjects(v) ==
    IF v.type = "array"
    THEN LET kept == ObjectItems(v.payload)
         IN  Mapped([i \in 1..Len(kept) |-> NormalizeProject(kept[i])])
    ELSE Arr(<<>>)

\* lines 260-270: the same for sectionBlocks
NormalizeSections(v) ==
    IF v.type = "array"
    THEN LET kept == ObjectItems(v.payload)
         IN  Mapped([i \in 1..Len(kept) |-> NormalizeSection(kept[i])])
    ELSE Arr(<<>>)

\* lines 284-303: list.length > 0 ? list : fallback
NonEmptyOr(list, fallback) ==
    IF Threw(list) THEN TypeError
    ELSE IF Len(list.payload) > 0 THEN list ELSE fallback

DEFAULT_PROJECTS ==
    Arr(<<Obj([name |-> Text("Project Showcase"),
               summary |-> Text("A standout Roblox build with strong retention metrics."),
               stack |-> DEFAULT_STACK,
               impact |-> Text("Demonstrates delivery and design depth."),
               imageUrl |-> Undefined,
               gameUrl |-> Undefined])>>)

DEFAULT_SECTIONS ==
    Arr(<<Obj([title |-> Text("Build Philosophy"),
               body |-> Text("I combine solid architecture with player-first iteration loops.")])>>)

DEFAULT_THEME ==
    [bg |-> Text("#050505"), bgSurface |-> Text("#0a0a0c"), ink |-> Text("#f4f4f5"),
     accent |-> Text("#ccff00"), fontBody |-> Text("Outfit"), fontDisplay |-> Text("Syne"),
     radius |-> Text("0px")]

ThemeKeys == DOMAIN DEFAULT_THEME

\* lines 304-323
NormalizeTheme(theme) ==
    IF Truthy(theme) /\ IsObjectLike(theme)
    THEN Obj([k \in ThemeKeys |-> OrElse(Get(theme, k), DEFAULT_THEME[k])])
    ELSE Obj(DEFAULT_THEME)

\* normalizeGeneratedPayload(raw) for an object raw: the GeneratedPortfolio
\* it returns, or TypeError when it throws
normalizeGeneratedPayload(raw) ==
    Literal(
      [headline |-> TrimOr(Get(raw, "headline"), Text("Roblox Developer Portfolio")),
       elevatorPitch |-> TrimOr(Get(raw, "elevatorPitch"),
            Text("I design and ship Roblox experiences that scale engagement.")),
       about |-> TrimOr(Get(raw, "about"),
            Text("Roblox-focused developer with a bias for gameplay systems and measurable growth.")),
       skills |-> TrimmedList(Get(raw, "skills"), DEFAULT_SKILLS),
       highlightedProjects |->
            NonEmptyOr(NormalizeProjects(Get(raw, "highlightedProjects")),
                       DEFAULT_PROJECTS),
       sectionBlocks |->
            NonEmptyOr(NormalizeSections(Get(raw, "sectionBlocks")),
                       DEFAULT_SECTIONS),
       theme |-> NormalizeTheme(Get(raw, "theme")),
       cta |-> TrimOr(Get(raw, "cta"),
            Text("Open to partnerships with Roblox studios shipping ambitious experiences."))])

-----------------------------------------------------------------------------
(* The objects normalizeGeneratedPayload is applied to: the object the     *)
(* model's text parsed to.  Every key may be missing or hold a value of    *)
(* any JSON type.                                                          *)

\* keys of the parsed object that differ from a missing key
MaxFields == 1

PortfolioKeys ==
    {"headline", "elevatorPitch", "about", "skills", "highlightedProjects",
     "sectionBlocks", "theme", "cta"}

Blank == Str(<<" ">>)
Padded == Str(<<" ", "a", " ">>)
Clean == Str(<<"a">>)

\* values of a key that should hold a string
ScalarValues ==
    { Null, Str(<<>>), Blank, Padded, Clean, Num(0), Num(5), Bool(TRUE),
      Arr(<<>>), Obj(<<>>) }

\* values of a key that should hold an array of strings
ListValues ==
    { Null, Clean, Num(5), Obj(<<>>), Arr(<<>>), Arr(<<Blank>>), Arr(<<Padded, Str(<<>>)>>),
      Arr(<<Clean, Str(<<"b">>)>>), Arr(<<Num(5)>>), Arr(<<Clean, Null>>) }

ProjectItems ==
    { Null, Clean, Num(5), Arr(<<>>), Obj(<<>>),
      Obj([name |-> Padded, summary |-> Clean, stack |-> Arr(<<Padded>>),
           impact |-> Str(<<>>), imageUrl |-> Padded, gameUrl |-> Blank]),
      Obj([name |-> Clean, stack |-> Arr(<<Blank>>)]),
      Obj([name |-> Num(5)]),
      Obj([stack |-> Arr(<<Bool(TRUE)>>)]),
      Obj([stack |-> Clean, gameUrl |-> Arr(<<>>)]) }

SectionItems ==
    { Null, Clean, Arr(<<>>), Obj(<<>>),
      Obj([title |-> Padded, body |-> Blank]),
      Obj([title |-> Clean, body |-> Obj(<<>>)]) }

\* arrays of at most one element, and one of two
ArraysOf(items) ==
    { Arr(<<>>) } \cup { Arr(<<item>>) : item \in items }
        \cup { Arr(<<Null, item>>) : item \in items }

ThemeValues ==
    { Null, Clean, Bool(TRUE), Arr(<<>>), Obj(<<>>),
      Obj([bg |-> Clean, bgSurface |-> Clean, ink |-> Clean, accent |-> Clean,
           fontBody |-> Clean, fontDisplay |-> Clean, radius |-> Clean]),
      Obj([bg |-> Str(<<>>), ink |-> Blank, accent |-> Num(5), radius |-> Null,
           fontBody |-> Obj(<<>>)]) }

ValuesOf(key) ==
    CASE key \in {"headline", "elevatorPitch", "about", "cta"} -> ScalarValues
      [] key = "skills" -> ListValues
      [] key = "highlightedProjects" -> {Null, Clean, Num(5)} \cup ArraysOf(ProjectItems)
      [] key = "sectionBlocks" -> {Null, Clean} \cup ArraysOf(SectionItems)
      [] key = "theme" -> ThemeValues

\* the objects that hold exactly the keys of the set `keys`
RECURSIVE ObjectsWith(_)
ObjectsWith(keys) ==
    IF keys = {} THEN { <<>> }
    ELSE LET key == CHOOSE k \in keys : TRUE
         IN  { [k \in DOMAIN rest \cup {key} |-> IF k = key THEN value ELSE rest[k]] :
                  rest \in ObjectsWith(keys \ {key}), value \in ValuesOf(key) }

ParsedObjects ==
    UNION { { Obj(fields) : fields \in ObjectsWith(keys) } :
              keys \in { ks \in SUBSET PortfolioKeys : Cardinality(ks) <= MaxFields } }

\* normalizeGeneratedPayload is applied to raw, then to its own result
NormIdle == [stage |-> "idle", raw |-> Undefined, out |-> Undefined, again |-> Undefined]

NormInit ==
    norm \in { [NormIdle EXCEPT !.stage = "parsed", !.raw = raw] : raw \in ParsedObjects }

Normalize ==
    /\ norm.stage = "parsed"
    /\ norm' = [norm EXCEPT !.stage = "normalized",
                            !.out = normalizeGeneratedPayload(norm.raw)]
    /\ UNCHANGED <<bargainVars, apiKeySet, streamVars, extract, scan, siteVars>>

NormalizeAgain ==
    /\ norm.stage = "normalized"
    /\ ~Threw(norm.out)
    /\ norm' = [norm EXCEPT !.stage = "renormalized",
                            !.again = normalizeGeneratedPayload(norm.out)]
    /\ UNCHANGED <<bargainVars, apiKeySet, streamVars, extract, scan, siteVars>>

NextNormalize == Normalize \/ NormalizeAgain

-----------------------------------------------------------------------------
(* The texts parseModelJson is applied to: a core text with prose around   *)
(* it.                                                                     *)

\* characters of prose around the core, before and after it together
MaxProse == 2

ProseChars == {"x", " ", "{", "}", "\"", "fence"}

\* the prose texts of length n
RECURSIVE ProseOfLength(_)
ProseOfLength(n) ==
    IF n = 0 THEN { <<>> }
    ELSE { Append(p, c) : p \in ProseOfLength(n - 1), c \in ProseChars }

\* well-formed JSON objects
ObjectTexts ==
    { <<"{", "}">>,
      <<"{", "\"", "x", "\"", ":", "1", "}">>,
      <<"{", "\"", "x", "\"", ":", "{", "}", "}">>,
      <<"{", "\"", "x", "\"", ":", "\"", ",", "}", "\"", "}">>,
      <<"{", "\"", "x", "\"", ":", " ", "[", "null", ",", "true", "]", "}">> }

\* other cores: nothing, JSON that is no object, and broken JSON
OtherTexts ==
    { <<>>,
      <<"[", "]">>,
      <<"[", "{", "}", "]">>,
      <<"\"", "x", "\"">>,
      <<"1">>, <<"null">>, <<"true">>,
      <<"{", "\"", "x", "\"", ":", "1", ",", "}">>,
      <<"[", "1", ",", " ", "]">>,
      <<"{", "x", "}">> }

ExtractIdle ==
    [stage |-> "idle", prefix |-> <<>>, core |-> <<>>, suffix |-> <<>>,
     result |-> [returned |-> FALSE, type |-> "", value |-> <<>>]]

\* the prose texts of length n at most
ProseUpTo(n) == UNION { ProseOfLength(k) : k \in 0..n }

ExtractInit ==
    extract \in
        UNION { { [ExtractIdle EXCEPT !.stage = "raw", !.prefix = prefix, !.core = core,
                                      !.suffix = suffix] :
                    suffix \in ProseUpTo(MaxProse - Len(prefix)),
                    core \in ObjectTexts \cup OtherTexts } :
                prefix \in ProseUpTo(MaxProse) }

\* the text of the model: fullContent of runOpenRouterCompletion
RawContent == extract.prefix \o extract.core \o extract.suffix

\* line 491: parseModelJson(fullContent)
ParseModelJson ==
    /\ extract.stage = "raw"
    /\ extract' = [extract EXCEPT !.stage = "parsed",
                                  !.result = parseModelJson(RawContent)]
    /\ UNCHANGED <<bargainVars, apiKeySet, streamVars, norm, scan, siteVars>>

NextExtract == ParseModelJson

-----------------------------------------------------------------------------
(* collectBalancedJsonObjects, iteration by iteration of its loop          *)

\* characters of the text that is scanned
MaxScan == 4

ScanChars == {"{", "}", "\"", "\\", "x"}

RECURSIVE ScanTexts(_)
ScanTexts(n) ==
    IF n = 0 THEN { <<>> }
    ELSE ScanTexts(n - 1) \cup
         { Append(p, c) : p \in { q \in ScanTexts(n - 1) : Len(q) = n - 1 }, c \in ScanChars }

\* lines 99-103: the locals before the loop; indices are 1-based, so "no
\* start" is 0 where the code has -1.  spans and trace are history: where
\* each object was found, and depth and inString before each character.
ScanStart(raw) ==
    [raw |-> raw, i |-> 1, depth |-> 0, startIndex |-> 0, inString |-> FALSE,
     isEscaped |-> FALSE, objects |-> <<>>, spans |-> <<>>, trace |-> <<>>]

ScanIdle == [ScanStart(<<>>) EXCEPT !.i = 0]

\* variant of ScanStep whose "}" lowers the depth at depth 0 too
ScanStepUnguarded(st) ==
    LET char == st.raw[st.i]
        next == [st EXCEPT !.i = @ + 1,
                           !.trace = Append(@, [depth |-> st.depth, inString |-> st.inString])]
    IN  IF st.inString
        THEN IF st.isEscaped THEN [next EXCEPT !.isEscaped = FALSE]
             ELSE IF char = "\\" THEN [next EXCEPT !.isEscaped = TRUE]
             ELSE IF char = "\"" THEN [next EXCEPT !.inString = FALSE]
             ELSE next
        ELSE IF char = "\"" THEN [next EXCEPT !.inString = TRUE]
        ELSE IF char = "{"
             THEN [next EXCEPT !.depth = @ + 1,
                               !.startIndex = IF st.depth = 0 THEN st.i ELSE @]
        ELSE IF char = "}"
             THEN IF st.depth - 1 = 0 /\ st.startIndex >= 1
                  THEN [next EXCEPT !.depth = 0, !.startIndex = 0,
                                    !.objects = Append(@, SubSeq(st.raw, st.startIndex, st.i)),
                                    !.spans = Append(@, <<st.startIndex, st.i>>)]
                  ELSE [next EXCEPT !.depth = @ - 1]
        ELSE next

\* lines 105-142: one iteration of the loop, on the character at i
ScanStep(st) ==
    LET char == st.raw[st.i]
        next == [st EXCEPT !.i = @ + 1,
                           !.trace = Append(@, [depth |-> st.depth, inString |-> st.inString])]
    IN  IF st.inString
        THEN IF st.isEscaped THEN [next EXCEPT !.isEscaped = FALSE]
             ELSE IF char = "\\" THEN [next EXCEPT !.isEscaped = TRUE]
             ELSE IF char = "\"" THEN [next EXCEPT !.inString = FALSE]
             ELSE next
        ELSE IF char = "\"" THEN [next EXCEPT !.inString = TRUE]
        ELSE IF char = "{"
             THEN [next EXCEPT !.depth = @ + 1,
                               !.startIndex = IF st.depth = 0 THEN st.i ELSE @]
        ELSE IF char = "}" /\ st.depth > 0
             THEN IF st.depth - 1 = 0 /\ st.startIndex >= 1
                  THEN [next EXCEPT !.depth = 0, !.startIndex = 0,
                                    !.objects = Append(@, SubSeq(st.raw, st.startIndex, st.i)),
                                    !.spans = Append(@, <<st.startIndex, st.i>>)]
                  ELSE [next EXCEPT !.depth = @ - 1]
        ELSE next

ScanInit == scan \in { ScanStart(raw) : raw \in ScanTexts(MaxScan) }

ScanChar ==
    /\ scan.i >= 1
    /\ scan.i <= Len(scan.raw)
    /\ scan' = ScanStep(scan)
    /\ UNCHANGED <<bargainVars, apiKeySet, streamVars, norm, extract, siteVars>>

NextScan == ScanChar

-----------------------------------------------------------------------------
(* Payments: convex/payments.ts, and the route /stripe-webhook of http.ts   *)

MaxDeliveries == 2
DeliveryIds == 1..MaxDeliveries

\* the least element of a non-empty set of integers
Least(S) == CHOOSE x \in S : \A y \in S : x <= y

Abs(x) == IF x < 0 THEN 0 - x ELSE x

\* A document of the table payments (schema.ts); createdAt is left out.
PaymentDoc(id, userId, stripeSessionId, amount) ==
    [id |-> id, userId |-> userId, stripeSessionId |-> stripeSessionId,
     amount |-> amount, status |-> "completed"]

\* payments.ts checkPaymentStatus for the user of the token
checkPaymentStatus(table, user) ==
    \E p \in table : p.userId = user /\ p.status = "completed"

\* What userId may hold: the id of a user, the id of a user whose document is
\* gone ("ghost"), or a string that is no id of the table users ("bogus").
GHOST_USER == "ghost"
BOGUS_USER == "bogus"

\* the validator v.id("users") of recordPayment
IsUserId(userId) == userId \in Users \cup {GHOST_USER}

\* variant: the insert without the lookup by_stripeSessionId
recordPaymentUnchecked(table, userId, stripeSessionId, amount) ==
    IF userId \notin Users THEN table
    ELSE table \cup { PaymentDoc(Cardinality(table) + 1, userId, stripeSessionId, amount) }

\* payments.ts recordPayment, the handler: the table after the mutation
recordPayment(table, userId, stripeSessionId, amount) ==
    IF \E existing \in table : existing.stripeSessionId = stripeSessionId THEN table
    ELSE IF userId \notin Users THEN table
    ELSE table \cup { PaymentDoc(Cardinality(table) + 1, userId, stripeSessionId, amount) }

\* process.env.STRIPE_WEBHOOK_SECRET as Stripe holds it; unset is ""
STRIPE_SECRET == "whsec_live"
SecretValues == {STRIPE_SECRET, ""}

\* http.ts computeHmacSha256: a keyed hash, taken to be free of collisions
computeHmacSha256(secret, timestamp, body) == <<secret, timestamp, body>>

\* seconds: the oldest t that verifyStripeSignature accepts
MAX_SIGNATURE_AGE == 300

\* variant: no test of the age of t
TooOldNever(now, timestamp) == FALSE

\* http.ts verifyStripeSignature, lines 351-352; now is Date.now() in ms,
\* timestamp is in seconds
TooOld(now, timestamp) == Abs(now - timestamp * 1000) > MAX_SIGNATURE_AGE * 1000

\* http.ts verifyStripeSignature.  The header is its parts t and v1, each a
\* sequence of no element (the part is missing or blank) or of one element.
verifyStripeSignature(body, sigHeader, secret, now) ==
    IF sigHeader.t = <<>> \/ sigHeader.v1 = <<>> THEN FALSE
    ELSE IF TooOld(now, sigHeader.t[1]) THEN FALSE
    ELSE computeHmacSha256(secret, sigHeader.t[1], body) = sigHeader.v1[1]

\* The body of a request: text that is no JSON, or an event.  A missing
\* string is "", a missing or non-numeric amount is 0 (Number(...) is then
\* NaN or 0, both falsy).
Event(json, type, hasObject, id, metaUserId, clientReferenceId, metaAmount, amountTotal) ==
    [json |-> json, type |-> type, hasObject |-> hasObject, id |-> id,
     metaUserId |-> metaUserId, clientReferenceId |-> clientReferenceId,
     metaAmount |-> metaAmount, amountTotal |-> amountTotal]

COMPLETED == "checkout.session.completed"
DEFAULT_AMOUNT == 899

Completed(id, metaUserId, clientReferenceId, metaAmount, amountTotal) ==
    Event(TRUE, COMPLETED, TRUE, id, metaUserId, clientReferenceId, metaAmount, amountTotal)

Bodies ==
    { Event(FALSE, "", FALSE, "", "", "", 0, 0),
      Event(TRUE, "payment_intent.succeeded", TRUE, "cs_1", "u1", "", 899, 0),
      Event(TRUE, COMPLETED, FALSE, "", "", "", 0, 0),
      Completed("cs_1", "u1", "", 899, 0),
      Completed("cs_1", "u2", "", 499, 0),
      Completed("cs_2", "", "u1", 0, 499),
      Completed("cs_2", GHOST_USER, "", 0, 0),
      Completed("cs_2", BOGUS_USER, "", 499, 0),
      Completed("", "u2", "", 899, 0),
      Completed("cs_2", "", "", 899, 0) }

\* http.ts lines 391-392
SessionUserId(event) ==
    IF event.metaUserId # "" THEN event.metaUserId ELSE event.clientReferenceId

SessionAmount(event) ==
    IF event.metaAmount # 0 THEN event.metaAmount
    ELSE IF event.amountTotal # 0 THEN event.amountTotal
    ELSE DEFAULT_AMOUNT

\* the responses of the route; PENDING while recordPayment is to run
SECRET_MISSING == "500 Webhook secret not configured"
INVALID_SIGNATURE == "400 Invalid signature"
INVALID_JSON == "400 Invalid JSON"
RESPONSE_OK == "200 ok"
SERVER_ERROR == "500"
PENDING == "pending"

\* variant of HandleWebhook without the call of verifyStripeSignature
HandleWebhookUnverified(body, sigHeader, secret, now) ==
    IF secret = "" THEN [response |-> SECRET_MISSING, call |-> FALSE]
    ELSE IF ~body.json THEN [response |-> INVALID_JSON, call |-> FALSE]
    ELSE IF body.type # COMPLETED THEN [response |-> RESPONSE_OK, call |-> FALSE]
    ELSE IF ~body.hasObject THEN [response |-> SERVER_ERROR, call |-> FALSE]
    ELSE IF SessionUserId(body) # "" /\ body.id # ""
         THEN [response |-> PENDING, call |-> TRUE]
    ELSE [response |-> RESPONSE_OK, call |-> FALSE]

\* http.ts, the handler of /stripe-webhook up to its call of recordPayment:
\* the response, or the call it makes
HandleWebhook(body, sigHeader, secret, now) ==
    IF secret = "" THEN [response |-> SECRET_MISSING, call |-> FALSE]
    ELSE IF ~verifyStripeSignature(body, sigHeader, secret, now)
         THEN [response |-> INVALID_SIGNATURE, call |-> FALSE]
    ELSE IF ~body.json THEN [response |-> INVALID_JSON, call |-> FALSE]
    ELSE IF body.type # COMPLETED THEN [response |-> RESPONSE_OK, call |-> FALSE]
    ELSE IF ~body.hasObject THEN [response |-> SERVER_ERROR, call |-> FALSE]
    ELSE IF SessionUserId(body) # "" /\ body.id # ""
         THEN [response |-> PENDING, call |-> TRUE]
    ELSE [response |-> RESPONSE_OK, call |-> FALSE]

\* Who made the header: Stripe (t and v1 as signed), a sender that replaced
\* t by the present time, a sender that signs with a guessed secret, and
\* senders that leave a part out.
Signers == {"stripe", "retimed", "guessed", "unsigned", "untimed"}

\* how long before the request Stripe signed it, in seconds
AgeInputs == {0, 300, 301, 0 - 301}

\* Date.now() when the requests arrive, on a whole second and half a second
\* after it
StripeNow == 1000000

SigHeader(signer, timestamp, body, now) ==
    CASE signer = "stripe" ->
           [t |-> <<timestamp>>, v1 |-> <<computeHmacSha256(STRIPE_SECRET, timestamp, body)>>]
      [] signer = "retimed" ->
           [t |-> <<now \div 1000>>, v1 |-> <<computeHmacSha256(STRIPE_SECRET, timestamp, body)>>]
      [] signer = "guessed" ->
           [t |-> <<timestamp>>, v1 |-> <<computeHmacSha256("guess", timestamp, body)>>]
      [] signer = "unsigned" -> [t |-> <<timestamp>>, v1 |-> <<>>]
      [] OTHER ->
           [t |-> <<>>, v1 |-> <<computeHmacSha256(STRIPE_SECRET, timestamp, body)>>]

IdleDelivery == [pc |-> "idle", userId |-> "", stripeSessionId |-> "", amount |-> 0]
DoneDelivery == [IdleDelivery EXCEPT !.pc = "done"]

\* What the last step of the route was.  Of the handler: the age of t in ms,
\* whether v1 is the HMAC of t and the body under the configured secret, and
\* the response.  Of recordPayment: its stripeSessionId, whether a payment
\* of that stripeSessionId existed before it, and the response.
Delivery(step, age, signed, stripeSessionId, existing, response) ==
    [step |-> step, age |-> age, signed |-> signed,
     stripeSessionId |-> stripeSessionId, existing |-> existing, response |-> response]

NoDelivery == Delivery("none", 0, FALSE, "", FALSE, "")

\* v1 is the HMAC-SHA256 of "t.body" under the configured secret
HmacCorrect(body, sigHeader, secret) ==
    /\ secret # "" /\ sigHeader.t # <<>> /\ sigHeader.v1 # <<>>
    /\ sigHeader.v1[1] = computeHmacSha256(secret, sigHeader.t[1], body)

\* A request to /stripe-webhook: the handler up to its response or to its
\* call of recordPayment.
Webhook(body, signer, age) ==
    LET timestamp == clock \div 1000 - age
        sigHeader == SigHeader(signer, timestamp, body, clock)
        outcome == HandleWebhook(body, sigHeader, webhookSecret, clock)
        free == { d \in DeliveryIds : deliveries[d].pc = "idle" }
    IN  /\ outcome.call => free # {}
        /\ deliveries' =
             IF outcome.call
             THEN [deliveries EXCEPT ![Least(free)] =
                     [pc |-> "recording", userId |-> SessionUserId(body),
                      stripeSessionId |-> body.id, amount |-> SessionAmount(body)]]
             ELSE deliveries
        /\ lastDelivery' =
             Delivery("webhook",
                      IF sigHeader.t = <<>> THEN 0 ELSE clock - sigHeader.t[1] * 1000,
                      HmacCorrect(body, sigHeader, webhookSecret), "", FALSE,
                      outcome.response)
        /\ UNCHANGED <<payments, webhookSecret, portfolios, lastPublish, bargainVars,
                       apiKeySet, streamVars, norm, extract, scan, checkout>>

\* The mutation recordPayment the handler has called, and the response after
\* it: the validator of the arguments, then the handler.
RecordPayment(d) ==
    LET call == deliveries[d] IN
    /\ call.pc = "recording"
    /\ payments' = IF IsUserId(call.userId)
                   THEN recordPayment(payments, call.userId, call.stripeSessionId,
                                      call.amount)
                   ELSE payments
    /\ deliveries' = [deliveries EXCEPT ![d] = DoneDelivery]
    /\ lastDelivery' =
         Delivery("recordPayment", 0, TRUE, call.stripeSessionId,
                  \E p \in payments : p.stripeSessionId = call.stripeSessionId,
                  IF IsUserId(call.userId) THEN RESPONSE_OK ELSE SERVER_ERROR)
    /\ UNCHANGED <<webhookSecret, portfolios, lastPublish, bargainVars, apiKeySet,
                   streamVars, norm, extract, scan, checkout>>

PaymentsInit ==
    /\ payments = {}
    /\ deliveries = [d \in DeliveryIds |-> IdleDelivery]
    /\ lastDelivery = NoDelivery
    /\ webhookSecret \in SecretValues

NextPayments ==
    \/ \E body \in Bodies, signer \in Signers, age \in AgeInputs : Webhook(body, signer, age)
    \/ \E d \in DeliveryIds : RecordPayment(d)

-----------------------------------------------------------------------------
(* Publishing: savePortfolio and publishPortfolio of convex/portfolio.ts    *)

MaxPortfolios == 2
PortfolioIds == 1..MaxPortfolios

\* publicSlug of a portfolio that was never published (the field is absent)
NoSlug == <<>>

\* A document of the table portfolios (schema.ts): its owner and its slug;
\* the content and publishedAt are left out.
PortfolioDoc(id, userId, publicSlug) ==
    [id |-> id, userId |-> userId, publicSlug |-> publicSlug]

\* A slug is a sequence of characters.
LowerLetters ==
    {"a", "b", "c", "d", "e", "f", "g", "h", "i", "j", "k", "l", "m",
     "n", "o", "p", "q", "r", "s", "t", "u", "v", "w", "x", "y", "z"}
Digits == {"0", "1", "2", "3", "4", "5", "6", "7", "8", "9"}

\* String.prototype.toLowerCase on the characters of the inputs
LowerOf(c) ==
    CASE c = "M" -> "m"
      [] c = "G" -> "g"
      [] c = "A" -> "a"
      [] OTHER -> c

ToLowerCase(s) == [i \in 1..Len(s) |-> LowerOf(s[i])]

SLUG_MIN == 3
SLUG_MAX == 40

\* /^[a-z0-9-]{3,40}$/.test(slug)
SlugPattern(slug) ==
    /\ Len(slug) >= SLUG_MIN
    /\ Len(slug) <= SLUG_MAX
    /\ \A i \in 1..Len(slug) : slug[i] \in LowerLetters \cup Digits \cup {"-"}

\* args.slug.trim().toLowerCase()
NormalizeSlug(slug) == ToLowerCase(StrTrim(slug))

SLUG_ERROR == "Slug must be 3-40 chars: lowercase letters, numbers, hyphens."
NOT_FOUND_ERROR == "Portfolio not found."
TAKEN_ERROR == "That subdomain is already taken."
UNAUTHORIZED_ERROR == "Unauthorized"
PUBLISHED == "published"

\* variant: the slug of another portfolio is not looked up
publishPortfolioUnchecked(table, user, portfolioId, rawSlug) ==
    LET slug == NormalizeSlug(rawSlug)
        portfolio == { p \in table : p.id = portfolioId }
    IN  IF user = NoUser THEN [result |-> UNAUTHORIZED_ERROR, table |-> table]
        ELSE IF ~SlugPattern(slug) THEN [result |-> SLUG_ERROR, table |-> table]
        ELSE IF portfolio = {} \/ (\E p \in portfolio : p.userId # user)
             THEN [result |-> NOT_FOUND_ERROR, table |-> table]
        ELSE [result |-> PUBLISHED,
              table |-> { IF p.id = portfolioId THEN [p EXCEPT !.publicSlug = slug] ELSE p :
                          p \in table }]

\* portfolio.ts publishPortfolio, the handler: what the caller gets and the
\* table after the mutation
publishPortfolio(table, user, portfolioId, rawSlug) ==
    LET slug == NormalizeSlug(rawSlug)
        portfolio == { p \in table : p.id = portfolioId }
        existing == { p \in table : p.publicSlug = slug }
    IN  IF user = NoUser THEN [result |-> UNAUTHORIZED_ERROR, table |-> table]
        ELSE IF ~SlugPattern(slug) THEN [result |-> SLUG_ERROR, table |-> table]
        ELSE IF portfolio = {} \/ (\E p \in portfolio : p.userId # user)
             THEN [result |-> NOT_FOUND_ERROR, table |-> table]
        ELSE IF \E p \in existing : p.id # portfolioId
             THEN [result |-> TAKEN_ERROR, table |-> table]
        ELSE [result |-> PUBLISHED,
              table |-> { IF p.id = portfolioId THEN [p EXCEPT !.publicSlug = slug] ELSE p :
                          p \in table }]

RECURSIVE Repeat(_, _)
Repeat(c, n) == IF n = 0 THEN <<>> ELSE <<c>> \o Repeat(c, n - 1)

\* args.slug: padded and in capitals, plain, too short once trimmed, with a
\* character outside the pattern, of 40 and of 41 characters
SlugInputs ==
    { <<" ", "M", "y", "-", "G", "a", "m", "e", " ">>,
      <<"m", "y", "-", "g", "a", "m", "e">>,
      <<"a", "b", " ">>,
      <<"a", "_", "c">>,
      Repeat("a", SLUG_MAX),
      Repeat("a", SLUG_MAX + 1) }

\* the publishPortfolio call made last: its arguments and what it returned
Publish(user, portfolioId, slug, result) ==
    [user |-> user, portfolioId |-> portfolioId, slug |-> slug, result |-> result]

NoPublish == Publish(NoUser, 0, <<>>, "")

\* portfolio.ts savePortfolio: a new document of the caller, not published
SavePortfolio(token) ==
    LET user == lookupUserByToken(token)
        id == Cardinality(portfolios) + 1
    IN  /\ id \in PortfolioIds
        /\ portfolios' = IF user = NoUser THEN portfolios
                         ELSE portfolios \cup { PortfolioDoc(id, user, NoSlug) }
        /\ UNCHANGED <<lastPublish, payments, webhookSecret, deliveries, lastDelivery,
                       bargainVars, apiKeySet, streamVars, norm, extract, scan, checkout>>

\* portfolio.ts publishPortfolio.  portfolioId is an id of the table, of a
\* document or of none.
PublishPortfolio(token, portfolioId, slug) ==
    LET user == lookupUserByToken(token)
        out == publishPortfolio(portfolios, user, portfolioId, slug)
    IN  /\ portfolios' = out.table
        /\ lastPublish' = Publish(user, portfolioId, slug, out.result)
        /\ UNCHANGED <<payments, webhookSecret, deliveries, lastDelivery, bargainVars,
                       apiKeySet, streamVars, norm, extract, scan, checkout>>

PublishInit ==
    /\ portfolios = {}
    /\ lastPublish = NoPublish

NextPublish ==
    \/ \E token \in Tokens : SavePortfolio(token)
    \/ \E token \in Tokens, portfolioId \in PortfolioIds, slug \in SlugInputs :
          PublishPortfolio(token, portfolioId, slug)


-----------------------------------------------------------------------------
(* payments.ts: the action createCheckoutSession *)

\* the amounts of the two offers, in cents
FULL_PRICE == 899
DEAL_PRICE == 499

\* args.amount is v.number(): the two prices and numbers next to them
AmountInputs == {FULL_PRICE, DEAL_PRICE, DEAL_PRICE - 1, FULL_PRICE + 1}

CHECKOUT_UNAUTHORIZED == "Unauthorized"
INVALID_AMOUNT == "Invalid amount."
STRIPE_NOT_CONFIGURED == "Stripe is not configured."
CHECKOUT_FAILED == "Failed to create checkout session."
CHECKOUT_URL == "url"

\* payments.ts createCheckoutSession, the handler: whether the request to
\* api.stripe.com is sent, and the error thrown or the url returned
createCheckoutSession(user, amount, stripeKeySet, providerOk) ==
    IF user = NoUser THEN [called |-> FALSE, result |-> CHECKOUT_UNAUTHORIZED]
    ELSE IF amount # FULL_PRICE /\ amount # DEAL_PRICE
         THEN [called |-> FALSE, result |-> INVALID_AMOUNT]
    ELSE IF ~stripeKeySet THEN [called |-> FALSE, result |-> STRIPE_NOT_CONFIGURED]
    ELSE IF ~providerOk THEN [called |-> TRUE, result |-> CHECKOUT_FAILED]
    ELSE [called |-> TRUE, result |-> CHECKOUT_URL]

\* stripeKeySet: process.env.STRIPE_SECRET_KEY is set and non-blank; the
\* other fields are the last call: its user, its amount, whether it sent the
\* request to the provider, and what its caller got
Checkout(stripeKeySet, user, amount, called, result) ==
    [stripeKeySet |-> stripeKeySet, user |-> user, amount |-> amount,
     called |-> called, result |-> result]

CheckoutIdle == Checkout(TRUE, NoUser, 0, FALSE, "")

CheckoutInit == checkout \in { Checkout(k, NoUser, 0, FALSE, "") : k \in BOOLEAN }

\* one call of createCheckoutSession; providerOk: the answer of Stripe
CreateCheckoutSession(token, amount, providerOk) ==
    LET user == lookupUserByToken(token)
        outcome == createCheckoutSession(user, amount, checkout.stripeKeySet, providerOk)
    IN  /\ checkout' = Checkout(checkout.stripeKeySet, user, amount,
                                outcome.called, outcome.result)
        /\ UNCHANGED <<bargainVars, apiKeySet, streamVars, norm, extract, scan, payments,
                       webhookSecret, deliveries, lastDelivery, portfolios, lastPublish>>

-----------------------------------------------------------------------------
(* Specifications *)

\* the parts a specification leaves out stay as they are
PureIdle == norm = NormIdle /\ extract = ExtractIdle /\ scan = ScanIdle

\* no payment, no webhook request, no portfolio
SiteIdle ==
    /\ payments = {}
    /\ webhookSecret = STRIPE_SECRET
    /\ deliveries = [d \in DeliveryIds |-> IdleDelivery]
    /\ lastDelivery = NoDelivery
    /\ portfolios = {}
    /\ lastPublish = NoPublish
    /\ checkout = CheckoutIdle

OtherIdle == PureIdle /\ SiteIdle

\* no bargain session, no call
BargainIdle ==
    /\ bargainSessions = {}
    /\ nextSessionId = 1
    /\ calls = [c \in CallIds |-> IdleCall]
    /\ moodPeak = [i \in SessionIds |-> 0]
    /\ lastOp = Op("init", NoUser, 0, "", 0, OK)

\* no StreamRecord, no run
StreamIdle ==
    /\ streams = {}
    /\ runs = [r \in RunIds |-> IdleRun]
    /\ clock = 0

Init ==
    /\ BargainInit
    /\ StreamIdle
    /\ OtherIdle

\* the relay alone: no bargain session
InitStream ==
    /\ StreamInit
    /\ BargainIdle
    /\ apiKeySet \in BOOLEAN
    /\ OtherIdle

\* Concurrent conversations: calls overlap freely; the provider answers with
\* the replies that move the mood.
Next ==
    \/ \E token \in Tokens : StartSession(token)
    \/ \E c \in CallIds, token \in Tokens, message \in UserInputs, sessionId \in SessionIds :
          SendMessage(c, token, message, sessionId)
    \/ \E c \in CallIds : AddUserMessage(c)
    \/ \E c \in CallIds : RespondNoKey(c)
    \/ \E c \in CallIds, r \in MoodReplies : Receive(c, r)

Spec == Init /\ [][Next]_vars

\* One call at a time (the client's isBargainSending guard) on the sessions of
\* the initial table: every kind of reply of the provider.
NoCallInFlight == \A c \in CallIds : calls[c].pc \in {"idle", "done"}

NextReplies ==
    \/ \E c \in CallIds, token \in Tokens, message \in UserInputs, sessionId \in SessionIds :
          NoCallInFlight /\ SendMessage(c, token, message, sessionId)
    \/ \E c \in CallIds : AddUserMessage(c)
    \/ \E c \in CallIds : RespondNoKey(c)
    \/ \E c \in CallIds, r \in LlmReplies : Receive(c, r)

SpecReplies == Init /\ [][NextReplies]_vars


SpecStream == InitStream /\ [][NextStream]_vars

\* normalizeGeneratedPayload alone
InitNormalize ==
    /\ NormInit
    /\ BargainIdle
    /\ apiKeySet = TRUE
    /\ StreamIdle
    /\ extract = ExtractIdle
    /\ scan = ScanIdle
    /\ SiteIdle

SpecNormalize == InitNormalize /\ [][NextNormalize]_vars

\* parseModelJson alone
InitExtract ==
    /\ ExtractInit
    /\ BargainIdle
    /\ apiKeySet = TRUE
    /\ StreamIdle
    /\ norm = NormIdle
    /\ scan = ScanIdle
    /\ SiteIdle

SpecExtract == InitExtract /\ [][NextExtract]_vars

\* collectBalancedJsonObjects alone
InitScan ==
    /\ ScanInit
    /\ BargainIdle
    /\ apiKeySet = TRUE
    /\ StreamIdle
    /\ norm = NormIdle
    /\ extract = ExtractIdle
    /\ SiteIdle

SpecScan == InitScan /\ [][NextScan]_vars

\* the webhook alone: requests to /stripe-webhook and their recordPayment
InitPayments ==
    /\ PaymentsInit
    /\ portfolios = {}
    /\ lastPublish = NoPublish
    /\ BargainIdle
    /\ apiKeySet = TRUE
    /\ streams = {}
    /\ runs = [r \in RunIds |-> IdleRun]
    /\ clock \in {StripeNow, StripeNow + 500}
    /\ PureIdle
    /\ checkout = CheckoutIdle

SpecPayments == InitPayments /\ [][NextPayments]_vars

\* The payments a behaviour of the generation starts from: none, the one
\* recordPayment has inserted for u1, and one for each user.
PaidTables ==
    { {},
      recordPayment({}, "u1", "cs_1", DEFAULT_AMOUNT),
      recordPayment(recordPayment({}, "u1", "cs_1", DEFAULT_AMOUNT), "u2", "cs_2", 499) }

\* generation with the payments in view: the actions up to the response of
\* the provider
InitAccess ==
    /\ payments \in PaidTables
    /\ webhookSecret = STRIPE_SECRET
    /\ deliveries = [d \in DeliveryIds |-> IdleDelivery]
    /\ lastDelivery = NoDelivery
    /\ portfolios = {}
    /\ lastPublish = NoPublish
    /\ StreamInit
    /\ BargainIdle
    /\ apiKeySet \in BOOLEAN
    /\ PureIdle
    /\ checkout = CheckoutIdle

NextAccess ==
    \/ \E r \in RunIds, token \in Tokens, purpose \in {"generate", "revise"},
          withStream \in BOOLEAN :
          StartRun(r, token, purpose, withStream)
    \/ \E r \in RunIds, resp \in Responses : Response(r, resp)

SpecAccess == InitAccess /\ [][NextAccess]_vars

\* the actions called directly, two invocations at a time
InitDirect ==
    /\ DirectInit
    /\ BargainIdle
    /\ apiKeySet = TRUE
    /\ OtherIdle

SpecDirect == InitDirect /\ [][NextDirect]_vars

\* publishing alone
InitPublish ==
    /\ PublishInit
    /\ payments = {}
    /\ webhookSecret = STRIPE_SECRET
    /\ deliveries = [d \in DeliveryIds |-> IdleDelivery]
    /\ lastDelivery = NoDelivery
    /\ BargainIdle
    /\ apiKeySet = TRUE
    /\ StreamIdle
    /\ PureIdle
    /\ checkout = CheckoutIdle

SpecPublish == InitPublish /\ [][NextPublish]_vars

\* checkouts next to the conversations, which unlock the discount
InitCheckout ==
    /\ BargainInit
    /\ StreamIdle
    /\ PureIdle
    /\ payments = {}
    /\ webhookSecret = STRIPE_SECRET
    /\ deliveries = [d \in DeliveryIds |-> IdleDelivery]
    /\ lastDelivery = NoDelivery
    /\ portfolios = {}
    /\ lastPublish = NoPublish
    /\ CheckoutInit

NextCheckout ==
    \/ NextReplies
    \/ \E token \in Tokens, amount \in AmountInputs, providerOk \in BOOLEAN :
          NoCallInFlight /\ CreateCheckoutSession(token, amount, providerOk)

SpecCheckout == InitCheckout /\ [][NextCheckout]_vars

-----------------------------------------------------------------------------
(* Properties of the bargaining sessions *)

\* C1: a session's discountUnlocked is true exactly when its mood has reached
\* MOOD_THRESHOLD at some point of the session (so it never goes back to
\* false), concurrent sendMessage calls included.
C1_UnlockedIffMoodReached ==
    \A d \in bargainSessions :
        d.discountUnlocked <=> (moodPeak[d.id] >= MOOD_THRESHOLD)

\* C2: the mood of every session is in MIN_MOOD..MAX_MOOD at every point,
\* whatever mood changes the replies carry.
C2_MoodInRange ==
    \A d \in bargainSessions : MIN_MOOD <= d.mood /\ d.mood <= MAX_MOOD

\* a reply with a positive mood change has just been applied and the mood
\* stands at the ceiling
C2_Witness ==
    /\ lastOp.op = "respond"
    /\ lastOp.moodChange > 0
    /\ \E d \in bargainSessions : d.id = lastOp.sessionId /\ d.mood = MAX_MOOD

\* C3: sendMessage on a session whose messageCount has reached MAX_MESSAGES
\* is rejected (with the message-limit error when the caller owns the session
\* and the message is valid), and a rejected sendMessage leaves every session
\* and every call as it was: no message is appended, no request is issued.
C3_LimitRejects ==
    /\ [](\A d \in bargainSessions, token \in Tokens, message \in UserInputs :
            d.messageCount >= MAX_MESSAGES =>
                LET res == SendMessageCheck(bargainSessions, token, message, d.id)
                    valid == /\ lookupUserByToken(token) = d.userId
                             /\ Trim(message) # ""
                             /\ Length(Trim(message)) <= MAX_MESSAGE_LENGTH
                IN  res # OK /\ (valid => res = ERR_LIMIT))
    /\ [][lastOp'.op = "sendMessage" /\ lastOp'.result # OK
            => UNCHANGED <<bargainSessions, calls, moodPeak>>]_vars

\* the message-limit error has just been thrown and the full session stands
\* as it was seeded
C3_Witness ==
    /\ lastOp.op = "sendMessage"
    /\ lastOp.result = ERR_LIMIT
    /\ SeedSession(1, "u1", MAX_MESSAGES, 60) \in bargainSessions

\* C4: the messageCount of a session never exceeds MAX_MESSAGES, concurrent
\* sendMessage calls included.
C4_CountAtMostMax ==
    \A d \in bargainSessions : d.messageCount <= MAX_MESSAGES

\* C5: right after a successful startSession the user has exactly one
\* session, the new one (mood START_MOOD, count 0, discount locked, the
\* intro message alone), and the sessions of the other users are untouched.
C5_StartSessionReplaces ==
    [][lastOp'.op = "startSession" /\ lastOp'.result = OK
         /\ nextSessionId' # nextSessionId
       => LET user == lastOp'.user
              id == lastOp'.sessionId
          IN  /\ ByUserId(bargainSessions', user)
                    = { Doc(id, user, START_MOOD, <<INTRO_MESSAGE>>, FALSE, 0) }
              /\ DbGet(bargainSessions, id) = {}
              /\ { d \in bargainSessions' : d.userId # user }
                    = { d \in bargainSessions : d.userId # user }]_vars

\* u1 has just replaced the full session; the session of u2 is still there
C5_Witness ==
    /\ lastOp.op = "startSession"
    /\ lastOp.result = OK
    /\ lastOp.user = "u1"
    /\ bargainSessions = { Doc(3, "u1", START_MOOD, <<INTRO_MESSAGE>>, FALSE, 0),
                           SeedSession(2, "u2", 0, START_MOOD) }

\* the kinds of reply that are a failure of the LLM call: the request fails,
\* a non-success status, a body that is no JSON, no string content, content
\* without a JSON object, content whose JSON object does not parse
FailureKinds == {"reject", "status", "badbody", "nostring", "nomatch", "invalid"}

\* C6: when the LLM call fails in any of these ways, sendMessage raises no
\* error and appends exactly one assistant message to the session, whose
\* mood stays as it was.
C6_FailuresFallBack ==
    [][lastOp'.op = "respond" /\ lastOp'.kind \in FailureKinds /\ calls' # calls
       => /\ lastOp'.result = OK
          /\ \A d \in DbGet(bargainSessions, lastOp'.sessionId) :
               \E e \in DbGet(bargainSessions', d.id) :
                  /\ e.mood = d.mood
                  /\ Len(e.messages) = Len(d.messages) + 1
                  /\ SubSeq(e.messages, 1, Len(d.messages)) = d.messages
                  /\ e.messages[Len(e.messages)].role = "assistant"]_vars

-----------------------------------------------------------------------------
(* Properties of the streamed runs *)

\* the run has a StreamRecord and the provider has answered with a success
\* status and a readable body
Streamed(r) == runs[r].streamId # 0 /\ runs[r].response = "ok"

\* the run has made its final append
Finished(r) ==
    /\ runs[r].pc = "done"
    /\ runs[r].appends # <<>>
    /\ runs[r].appends[Len(runs[r].appends)] = "done"

\* C7: when a run with an initially empty StreamRecord and a successful
\* upstream call has made its final done append, the text of the StreamRecord
\* equals fullContent.
C7_FinalTextIsFullContent ==
    \A r \in RunIds :
        Streamed(r) /\ Finished(r) =>
            /\ StreamOf(r) # {}
            /\ \A d \in StreamOf(r) : d.text = runs[r].fullContent

\* a finished run whose text went out in a flush inside the loop and a flush
\* after it
C7_Witness ==
    \E r \in RunIds :
        /\ Streamed(r) /\ Finished(r)
        /\ runs[r].appends = <<"text", "text", "done">>
        /\ \E d \in StreamOf(r) : Len(d.text) >= 2

\* C8: at every point of a run the text of its StreamRecord is a prefix of
\* fullContent, and during the read loop the text followed by the pending
\* buffer is fullContent: batching coalesces chunks, it does not reorder,
\* drop or duplicate them.
C8_TextIsPrefix ==
    \A r \in RunIds :
        Streamed(r) =>
            \A d \in StreamOf(r) :
                /\ IsPrefix(d.text, runs[r].fullContent)
                /\ runs[r].pc = "reading"
                      => d.text \o runs[r].pendingAppend = runs[r].fullContent

\* in the read loop, after a flush, with chunks waiting in the buffer
C8_Witness ==
    \E r \in RunIds :
        /\ Streamed(r)
        /\ runs[r].pc = "reading"
        /\ runs[r].pendingAppend # <<>>
        /\ \E d \in StreamOf(r) :
              d.text # <<>> /\ Len(d.text) < Len(runs[r].fullContent)

\* C9: after the read loop a non-empty pending buffer is flushed first (the
\* StreamRecord then holds the whole text and is still streaming), then one
\* final done append moves the StreamRecord to completed; no append follows
\* it, so the completed StreamRecord never gets text.
C9_FlushThenDone ==
    \A r \in RunIds :
        Streamed(r) =>
            \A d \in StreamOf(r) :
                LET a == runs[r].appends IN
                /\ runs[r].pc = "finishing"
                      => /\ d.text = runs[r].fullContent
                         /\ d.state = "streaming"
                         /\ \A i \in 1..Len(a) : a[i] = "text"
                /\ runs[r].pc = "done" /\ runs[r].result = "ok"
                      => Finished(r)
                /\ Finished(r)
                      => /\ d.state = "completed"
                         /\ \A i \in 1..(Len(a) - 1) : a[i] = "text"
                /\ d.state = "completed" <=> Finished(r)

\* a finished run: the buffer was flushed after the loop, then the one done
\* append completed the StreamRecord
C9_Witness ==
    \E r \in RunIds :
        /\ Streamed(r) /\ Finished(r)
        /\ runs[r].appends = <<"text", "done">>
        /\ runs[r].pendingAppend # <<>>
        /\ \E d \in StreamOf(r) : d.state = "completed" /\ d.text # <<>>

\* C10: when the provider answers with a non-success status, or with no
\* readable body, the run ends with an error and its StreamRecord has got an
\* error chunk and is in state error.
C10_UpstreamFailureMarksStream ==
    \A r \in RunIds :
        runs[r].pc = "done" /\ runs[r].response \in {"status", "nobody"}
            => /\ runs[r].result = "error"
               /\ \A d \in StreamOf(r) :
                     d.state = "error" /\ d.text = ERROR_CHUNK

-----------------------------------------------------------------------------
(* Properties of normalizeGeneratedPayload *)

\* normalizeGeneratedPayload has been applied and has returned
Normalized == norm.stage \in {"normalized", "renormalized"} /\ ~Threw(norm.out)

\* C11: whatever the parsed object holds, the portfolio that
\* normalizeGeneratedPayload returns has a non-empty headline, elevatorPitch,
\* about and cta, at least one skill, one highlighted project and one section
\* block, and a theme with its 7 sub-fields present and non-empty.
C11_OutputComplete ==
    Normalized =>
        LET o == norm.out.payload IN
        /\ \A k \in {"headline", "elevatorPitch", "about", "cta"} :
              o[k].type = "string" /\ o[k].payload # <<>>
        /\ o.skills.type = "array" /\ Len(o.skills.payload) >= 1
        /\ o.highlightedProjects.type = "array" /\ Len(o.highlightedProjects.payload) >= 1
        /\ o.sectionBlocks.type = "array" /\ Len(o.sectionBlocks.payload) >= 1
        /\ o.theme.type = "object"
        /\ \A k \in ThemeKeys : Truthy(Get(o.theme, k))

\* C12: normalizeGeneratedPayload raises no error, whatever the types of the
\* values the parsed object holds.
C12_NeverThrows ==
    norm.stage \in {"normalized", "renormalized"} => ~Threw(norm.out)

\* C13: normalizeGeneratedPayload applied to its own result returns that
\* result.
C13_Idempotent ==
    norm.stage = "renormalized" => norm.again = norm.out

-----------------------------------------------------------------------------
(* Properties of parseModelJson *)

\* every slice of the text
Slices(text) == { SubSeq(text, i, j) : i, j \in 1..Len(text) }

\* the text is one well-formed JSON object in prose that holds no JSON
\* object of its own
ObjectInProse ==
    /\ extract.core \in ObjectTexts
    /\ \A slice \in Slices(extract.prefix) \cup Slices(extract.suffix) :
          JsonType(slice) # "object"

\* C14: for a text that is one well-formed JSON object inside prose and
\* fences, parseModelJson returns that object.
C14_RecoversEmbeddedObject ==
    extract.stage = "parsed" /\ ObjectInProse =>
        /\ extract.result.returned
        /\ extract.result.type = "object"
        /\ extract.result.value = JsonParse(extract.core).value

\* C15: what parseModelJson returns is a non-array JSON object; a text that
\* is a JSON array is returned only through another candidate that is an
\* object, and an empty text makes it throw.
C15_ReturnsObjectOrThrows ==
    extract.stage = "parsed" =>
        /\ extract.result.returned => extract.result.type = "object"
        /\ extract.result.returned /\ JsonType(RawContent) = "array"
              => extract.result.value # JsonParse(RawContent).value
        /\ StrTrim(RawContent) = <<>> => ~extract.result.returned

\* parseModelJson has thrown on a text that is a JSON array
C15_Witness ==
    /\ extract.stage = "parsed"
    /\ JsonType(RawContent) = "array"
    /\ ~extract.result.returned

\* a fenced region, then the balanced-brace objects inside it, region by
\* region
RECURSIVE RegionTexts(_)
RegionTexts(regions) ==
    IF regions = <<>> THEN <<>>
    ELSE <<Head(regions)>> \o collectBalancedJsonObjects(Head(regions))
            \o RegionTexts(Tail(regions))

\* the text from the first "{" to the last "}", when the last comes later
BraceSlice(raw) ==
    LET opens == { i \in 1..Len(raw) : raw[i] = "{" }
        closes == { i \in 1..Len(raw) : raw[i] = "}" }
    IN  IF opens = {} \/ closes = {} THEN <<>>
        ELSE LET first == CHOOSE i \in opens : \A j \in opens : i <= j
                 last == CHOOSE i \in closes : \A j \in closes : i >= j
             IN  IF last > first THEN <<SubSeq(raw, first, last)>> ELSE <<>>

\* the try-order: the raw text, the fenced regions with their objects, the
\* text between the outermost braces, the balanced-brace objects of the text
TryOrder(raw) ==
    <<raw>> \o RegionTexts(FenceBodies(raw, 1)) \o BraceSlice(raw)
        \o collectBalancedJsonObjects(raw)

\* every text followed by itself without trailing commas
RECURSIVE WithVariants(_)
WithVariants(texts) ==
    IF texts = <<>> THEN <<>>
    ELSE <<Head(texts), StripTrailingCommas(Head(texts), 1)>> \o WithVariants(Tail(texts))

\* the indices of the texts that parse to a JSON object
ObjectsAmong(texts) == { k \in 1..Len(texts) : JsonType(texts[k]) = "object" }

\* C21: parseModelJson tries (1) the raw text, (2) each fenced region
\* followed by each balanced-brace object inside it, (3) the text from the
\* first "{" to the last "}", (4) each balanced-brace object of the whole
\* text from left to right, every one with its variant without trailing
\* commas, and returns the first of these that parses to a non-array object;
\* what it returns is the value of one slice of the text, never a
\* concatenation of several objects.
C21_FirstCandidateInOrder ==
    extract.stage = "parsed" =>
        \A order \in { WithVariants(TryOrder(RawContent)) } :
            /\ extract.result.returned <=> ObjectsAmong(order) # {}
            /\ extract.result.returned =>
                  /\ \E k \in ObjectsAmong(order) :
                        /\ \A j \in ObjectsAmong(order) : k <= j
                        /\ extract.result.value = Compact(order[k], 1, FALSE)
                  /\ \E slice \in Slices(RawContent) :
                        \E text \in { slice, StripTrailingCommas(slice, 1) } :
                            /\ JsonType(text) = "object"
                            /\ extract.result.value = Compact(text, 1, FALSE)

\* the text holds two independent objects of different value, and the first
\* of them was returned
C21_Witness ==
    /\ extract.stage = "parsed"
    /\ extract.result.returned
    /\ Len(collectBalancedJsonObjects(RawContent)) = 2
    /\ \A k \in 1..2 : JsonType(collectBalancedJsonObjects(RawContent)[k]) = "object"
    /\ extract.result.value = Compact(collectBalancedJsonObjects(RawContent)[1], 1, FALSE)
    /\ extract.result.value # Compact(collectBalancedJsonObjects(RawContent)[2], 1, FALSE)

-----------------------------------------------------------------------------
(* Properties of the payments and of the webhook *)

\* the payments of one stripeSessionId
PaymentsOf(stripeSessionId) == { p \in payments : p.stripeSessionId = stripeSessionId }

\* the step is the mutation recordPayment of the request d
RecordsPayment(d) == deliveries[d].pc = "recording" /\ deliveries'[d].pc = "done"

\* C16: after any requests to the webhook, replays and overlapping requests
\* included, the table payments holds at most one document per
\* stripeSessionId; a recordPayment whose stripeSessionId is already
\* recorded leaves the table as it is.
C16_OnePaymentPerSession ==
    /\ [](\A p, q \in payments : p.stripeSessionId = q.stripeSessionId => p = q)
    /\ [][\A d \in DeliveryIds :
            RecordsPayment(d) /\ PaymentsOf(deliveries[d].stripeSessionId) # {}
               => payments' = payments]_vars

\* a recordPayment has run for a stripeSessionId that was recorded before
C16_Witness ==
    /\ lastDelivery.step = "recordPayment"
    /\ lastDelivery.existing
    /\ Cardinality(PaymentsOf(lastDelivery.stripeSessionId)) = 1

\* C17: a request whose signature timestamp is more than 300 seconds old is
\* rejected although its v1 is the correct HMAC: the response is "Invalid
\* signature", recordPayment is not called and no payment is recorded.
C17_StaleSignatureRejected ==
    /\ [](lastDelivery.step = "webhook" /\ lastDelivery.signed
             /\ lastDelivery.age > MAX_SIGNATURE_AGE * 1000
            => lastDelivery.response = INVALID_SIGNATURE)
    /\ [][lastDelivery'.step = "webhook" /\ lastDelivery'.signed
             /\ lastDelivery'.age > MAX_SIGNATURE_AGE * 1000
            => payments' = payments /\ deliveries' = deliveries]_vars

\* a request signed by Stripe 301 seconds before has been rejected
C17_Witness ==
    /\ lastDelivery.step = "webhook"
    /\ lastDelivery.signed
    /\ lastDelivery.age = 301000
    /\ lastDelivery.response = INVALID_SIGNATURE


-----------------------------------------------------------------------------
(* Properties of publishing *)

\* a text of 3 to 40 characters, each a lowercase letter, a digit or a hyphen
WellFormedSlug(slug) ==
    /\ Len(slug) \in 3..40
    /\ \A i \in 1..Len(slug) : slug[i] \in LowerLetters \cup Digits \cup {"-"}

\* the step is a publishPortfolio call other than a repetition of the last
PublishStep == lastPublish' # lastPublish

\* the portfolios other than portfolioId that hold the slug before the step
OtherHolders(portfolioId, slug) ==
    { p \in portfolios : p.id # portfolioId /\ p.publicSlug = slug }

\* the caller of the call is signed in and owns the portfolio of the call
CallerOwns(call) ==
    \E p \in portfolios : p.id = call.portfolioId /\ p.userId = call.user

\* C18: after any publishPortfolio calls by any users no two portfolios have
\* the same publicSlug; a publish by the owner of a portfolio of a slug that
\* another portfolio holds fails with "That subdomain is already taken." and
\* changes no portfolio; a slug that, trimmed and in lowercase, does not
\* match ^[a-z0-9-]{3,40}$ is rejected and changes no portfolio.
C18_SlugsUnique ==
    /\ [](\A p, q \in portfolios :
             p.publicSlug # NoSlug /\ p.publicSlug = q.publicSlug => p = q)
    /\ [][PublishStep =>
            \A slug \in { ToLowerCase(StrTrim(lastPublish'.slug)) } :
                IF ~WellFormedSlug(slug)
                THEN lastPublish'.result # PUBLISHED /\ portfolios' = portfolios
                ELSE CallerOwns(lastPublish')
                        /\ OtherHolders(lastPublish'.portfolioId, slug) # {}
                     => lastPublish'.result = TAKEN_ERROR /\ portfolios' = portfolios]_vars

\* the owner of a portfolio has asked for the slug that the portfolio of
\* another user holds, and was refused
C18_Witness ==
    /\ lastPublish.result = TAKEN_ERROR
    /\ \E p, q \in portfolios :
          /\ p.id = lastPublish.portfolioId
          /\ p.userId = lastPublish.user
          /\ q.id # p.id
          /\ q.userId # p.userId
          /\ q.publicSlug = NormalizeSlug(lastPublish.slug)
          /\ p.publicSlug # q.publicSlug


-----------------------------------------------------------------------------
(* Properties of the access to generation *)

\* the run has sent its request to the provider
LlmCalled(r) == runs[r].pc = "fetching" \/ runs[r].response # ""

\* C19: generatePortfolioCopy and revisePortfolioCopy send a request to the
\* provider only for a signed-in user who has a payment of status
\* "completed"; for a user without one no generation is performed.
C19_GenerationRequiresPayment ==
    \A r \in RunIds :
        LlmCalled(r) => /\ runs[r].userId # NoUser
                        /\ checkPaymentStatus(payments, runs[r].userId)


-----------------------------------------------------------------------------
(* Properties of the batching of the read loop *)

\* the step is the run r reading one line of the body
ReadsLine(r) == runs[r].pc = "reading" /\ runs'[r].frames = runs[r].frames + 1

\* the text the step adds to fullContent
ChunkRead(r) ==
    SubSeq(runs'[r].fullContent, Len(runs[r].fullContent) + 1, Len(runs'[r].fullContent))

\* the time of the previous append of the loop, or of the start of the loop
PreviousFlush(r) == runs[r].flushTimes[Len(runs[r].flushTimes)]

\* C20: in the read loop of a run the pending buffer is appended to the
\* StreamRecord at most once per 200 ms: every append of the loop comes more
\* than 200 ms after the previous one (or after the start of the loop), and
\* a chunk read within 200 ms of it is added to the pending buffer and
\* nothing is written.
C20_FlushAtMostEvery200ms ==
    /\ [](\A r \in RunIds : \A i \in 2..Len(runs[r].flushTimes) :
             runs[r].flushTimes[i] - runs[r].flushTimes[i - 1] > 200)
    /\ [][\A r \in RunIds :
            ReadsLine(r) /\ ChunkRead(r) # <<>> /\ clock - PreviousFlush(r) <= 200
               => /\ streams' = streams
                  /\ runs'[r].appends = runs[r].appends
                  /\ runs'[r].pendingAppend = runs[r].pendingAppend \o ChunkRead(r)]_vars

\* after an append of the loop, a chunk read within 200 ms of it is held in
\* the pending buffer
C20_Witness ==
    \E r \in RunIds :
        /\ runs[r].pc = "reading"
        /\ Len(runs[r].flushTimes) >= 2
        /\ runs[r].pendingAppend # <<>>
        /\ clock - runs[r].flushTimes[Len(runs[r].flushTimes)] <= 200
        /\ runs[r].streamId # 0


-----------------------------------------------------------------------------
(* Properties of collectBalancedJsonObjects *)

\* C22: the scan goes over the text once from left to right and its depth is
\* never negative; a brace inside a double-quoted string does not change
\* the depth, and a quote after a backslash does not end the string; every
\* text returned starts at a "{" met at depth 0, ends at the "}" that brings
\* the depth back to 0, and the texts returned do not overlap and come in
\* the order of their positions.
C22_BalancedScan ==
    /\ [](/\ scan.depth >= 0
          /\ Len(scan.objects) = Len(scan.spans)
          /\ \A k \in 1..Len(scan.spans) :
                LET from == scan.spans[k][1]
                    to == scan.spans[k][2]
                IN  /\ from < to
                    /\ scan.objects[k] = SubSeq(scan.raw, from, to)
                    /\ scan.raw[from] = "{" /\ scan.raw[to] = "}"
                    /\ scan.trace[from].depth = 0 /\ ~scan.trace[from].inString
                    /\ \A i \in (from + 1)..to :
                          scan.trace[i].depth >= 1
                    /\ scan.trace[to].depth = 1 /\ ~scan.trace[to].inString
                    /\ k > 1 => scan.spans[k - 1][2] < from
          /\ scan.i = Len(scan.raw) + 1
                => scan.objects = collectBalancedJsonObjects(scan.raw))
    /\ [][scan' # scan =>
            /\ scan'.i = scan.i + 1
            /\ scan.inString => scan'.depth = scan.depth /\ scan'.objects = scan.objects
            /\ scan.inString /\ scan.isEscaped => scan'.inString
            /\ scan.inString /\ ~scan.isEscaped /\ scan.raw[scan.i] = "\\"
                  => scan'.inString /\ scan'.isEscaped]_vars

\* the scan has ended with one object found, having met a "}" inside a
\* string at depth 0
C22_Witness ==
    /\ scan.i = Len(scan.raw) + 1
    /\ scan.i > 1
    /\ Len(scan.objects) = 1
    /\ \E i \in 1..Len(scan.raw) :
          /\ scan.raw[i] = "}"
          /\ scan.trace[i].inString
          /\ scan.trace[i].depth = 0


-----------------------------------------------------------------------------
(* Properties of the frames of the read loop *)

\* C23: a frame whose payload does not parse is skipped: fullContent and the
\* pending buffer stay as they are, nothing is written, no error is raised
\* and the loop goes on; a well-formed frame read after it is added to
\* fullContent as any other.
C23_MalformedFrameSkipped ==
    [][\A r \in RunIds, f \in Frames :
          ReadFrame(r, f) =>
             /\ f.kind = "malformed" =>
                   /\ runs'[r].fullContent = runs[r].fullContent
                   /\ runs'[r].pendingAppend = runs[r].pendingAppend
                   /\ runs'[r].appends = runs[r].appends
                   /\ streams' = streams
                   /\ runs'[r].pc = "reading"
                   /\ runs'[r].result = runs[r].result
             /\ f.kind = "data" =>
                   /\ runs'[r].fullContent = runs[r].fullContent \o f.reasoning \o f.content
                   /\ runs'[r].pc = "reading"
                   /\ \/ runs'[r].pendingAppend
                            = runs[r].pendingAppend \o f.reasoning \o f.content
                      \/ runs'[r].appends = Append(runs[r].appends, "text")]_vars

\* a run that read a malformed frame has gone on, has read the text of a
\* later frame and has completed its StreamRecord with it
C23_Witness ==
    \E r \in RunIds :
        /\ runs[r].skippedAt >= 0
        /\ Len(runs[r].fullContent) > runs[r].skippedAt
        /\ runs[r].pc = "done"
        /\ runs[r].result = "ok"
        /\ \E d \in StreamOf(r) : d.text = runs[r].fullContent /\ d.state = "completed"


-----------------------------------------------------------------------------
(* Properties of the mood change of one exchange *)

\* C24: the moodChange that sendMessage hands to addResponseAndUpdateMood is
\* an integer from -15 to 12 whatever number the reply of the LLM holds, so
\* one exchange raises the mood of the session by at most 12 and lowers it by
\* at most 15.
C24_MoodChangeClamped ==
    /\ [](lastOp.op = "respond" => lastOp.moodChange \in (0 - 15)..12)
    /\ [][lastOp'.op = "respond" /\ calls' # calls
          => \A d \in DbGet(bargainSessions, lastOp'.sessionId) :
                \A e \in DbGet(bargainSessions', d.id) :
                   /\ e.mood - d.mood <= 12
                   /\ d.mood - e.mood <= 15]_vars

\* a reply holding the number -20 has just been handled: the mood change
\* handed on is -15 and the session seeded with mood 79 has lost 15 points
C24_Witness ==
    /\ lastOp.op = "respond"
    /\ lastOp.kind = "json"
    /\ lastOp.result = OK
    /\ lastOp.moodChange = 0 - 15
    /\ \E d \in DbGet(bargainSessions, lastOp.sessionId) : d.mood = 64


-----------------------------------------------------------------------------
(* Properties of the system prompt *)

\* the step is the call c sending its request to the LLM
CallsLlm(c) == calls[c].pc = "checked" /\ calls'[c].pc = "fetching"

\* C25: on each accepted user message sendMessage first appends the message to
\* the session and then calls the LLM with a system prompt that embeds the
\* mood and the message count the session holds at the time of the LLM call.
C25_PromptEmbedsCurrentState ==
    [][\A c \in CallIds :
          CallsLlm(c) =>
             \A d \in DbGet(bargainSessions', calls'[c].sessionId) :
                /\ d.messages[Len(d.messages)] = [role |-> "user", text |-> calls'[c].message]
                /\ calls'[c].snapMood = d.mood
                /\ calls'[c].snapCount = d.messageCount]_vars


-----------------------------------------------------------------------------
(* Properties of the ownership of a StreamRecord *)

\* the invocation r has called appendStream on a document of the table
HasAppended(r) == runs[r].appends # <<>> /\ StreamOf(r) # {}

\* C26: a StreamRecord is owned by one invocation: all the appends to a
\* StreamRecord come from a single invocation, which runs on behalf of the
\* user who created the record, so two concurrent invocations never
\* interleave their chunks in one StreamRecord.
C26_StreamOwnedByOneInvocation ==
    \A r \in DirectRunIds :
        HasAppended(r) =>
            /\ \A d \in StreamOf(r) : d.userId = runs[r].userId
            /\ \A q \in DirectRunIds \ {r} :
                  HasAppended(q) => runs[q].streamId # runs[r].streamId


-----------------------------------------------------------------------------
(* Properties of appendStream on a terminal or missing StreamRecord *)

\* the step is an appendStream call of the invocation r
Appends(r) == Len(runs'[r].appends) = Len(runs[r].appends) + 1

\* the kind of that call: "text", "done" (isDone) or "error" (isError)
AppendKind(r) == runs'[r].appends[Len(runs'[r].appends)]

\* the textChunk of that call
AppendChunk(r) ==
    CASE AppendKind(r) = "error" -> ERROR_CHUNK
      [] AppendKind(r) = "done" -> <<>>
      [] OTHER -> runs[r].pendingAppend \o ChunkRead(r)

\* C27: appendStream on a StreamRecord that is completed or in error is not
\* rejected: the chunk is appended to the text, and the state stays as it was
\* unless the call carries isError (error) or isDone without isError
\* (completed); appendStream on an id without a document changes nothing.
C27_TerminalStillAppends ==
    [][\A r \in DirectRunIds :
          Appends(r) =>
             /\ StreamOf(r) = {} => streams' = streams
             /\ \A d \in StreamOf(r) :
                   streams' = (streams \ {d}) \cup
                      { [d EXCEPT !.text = d.text \o AppendChunk(r),
                                  !.state = CASE AppendKind(r) = "error" -> "error"
                                              [] AppendKind(r) = "done" -> "completed"
                                              [] OTHER -> d.state] }]_vars

\* the first invocation has put the record in state error; the second one,
\* on the same record, has since appended its text and its final done: the
\* text follows the error chunk and the record is completed
C27_Witness ==
    /\ runs[1].appends = <<"error">>
    /\ runs[2].streamId = runs[1].streamId
    /\ runs[2].appends = <<"text", "done">>
    /\ \E d \in StreamOf(2) :
          /\ d.state = "completed"
          /\ d.text = ERROR_CHUNK \o runs[2].fullContent
          /\ runs[2].fullContent # <<>>


-----------------------------------------------------------------------------
(* Properties of the completed state *)

\* C28: the StreamRecord of an invocation is completed only if the invocation
\* returns a portfolio: an invocation that ends with an error, the failure of
\* parseModelJson on the final text included, never leaves its StreamRecord
\* completed.
C28_CompletedOnlyOnSuccess ==
    \A r \in RunIds :
        \A d \in StreamOf(r) :
            /\ d.state = "completed" => runs[r].pc = "done" /\ runs[r].result = "ok"
            /\ runs[r].pc = "done" /\ runs[r].result = "error" => d.state # "completed"


-----------------------------------------------------------------------------
(* Properties of the origin of a payment *)

\* the step is a request to /stripe-webhook that calls recordPayment
CallsRecordPayment ==
    \E d \in DeliveryIds : deliveries[d].pc = "idle" /\ deliveries'[d].pc = "recording"

\* the request carries a t no older than MAX_SIGNATURE_AGE and a v1 that is
\* the HMAC of t and the body under the configured secret
Verifies(body, sigHeader) ==
    /\ HmacCorrect(body, sigHeader, webhookSecret)
    /\ Abs(clock - sigHeader.t[1] * 1000) <= MAX_SIGNATURE_AGE * 1000

\* C29: a payment is inserted only as the effect of a request to the webhook
\* whose signature verifies, whose event is checkout.session.completed and
\* whose user id is one of an existing user; a request with the secret not
\* configured, a signature that fails, a body that is no JSON, another event
\* type or an unknown user leaves the table payments as it was.
C29_PaymentOnlyFromVerifiedWebhook ==
    /\ [][payments' # payments =>
             \E d \in DeliveryIds :
                /\ RecordPayment(d)
                /\ deliveries[d].userId \in Users
                /\ payments' = payments \cup
                      { PaymentDoc(Cardinality(payments) + 1, deliveries[d].userId,
                                   deliveries[d].stripeSessionId, deliveries[d].amount) }]_vars
    /\ [][CallsRecordPayment =>
             \A body \in Bodies, signer \in Signers, age \in AgeInputs :
                Webhook(body, signer, age) =>
                   /\ Verifies(body, SigHeader(signer, clock \div 1000 - age, body, clock))
                   /\ body.json
                   /\ body.type = COMPLETED
                   /\ \E d \in DeliveryIds :
                         /\ deliveries[d].pc = "idle"
                         /\ deliveries'[d].pc = "recording"
                         /\ deliveries'[d].userId = SessionUserId(body)
                         /\ deliveries'[d].stripeSessionId = body.id]_vars

\* the event with client_reference_id u1 has given u1 a payment of 499, the
\* event naming a deleted user has been through recordPayment without one,
\* and the last request was turned down for its signature
C29_Witness ==
    /\ payments = { PaymentDoc(1, "u1", "cs_2", 499) }
    /\ \A d \in DeliveryIds : deliveries[d].pc = "done"
    /\ lastDelivery.step = "webhook"
    /\ lastDelivery.response = INVALID_SIGNATURE


-----------------------------------------------------------------------------
(* Properties of the price of a checkout *)

\* the user's current BargainSession has the discount unlocked
DiscountUnlocked(user) ==
    \E d \in ByUserId(bargainSessions, user) : d.discountUnlocked

\* C30: createCheckoutSession sends a checkout of 499 to the provider only
\* for a user whose current BargainSession has discountUnlocked true; for any
\* other user only the amount 899 leads to a checkout, and an amount other
\* than 899 and 499 is rejected before the provider is called.
C30_DealPriceNeedsUnlock ==
    [][\A token \in Tokens, amount \in AmountInputs, providerOk \in BOOLEAN :
          CreateCheckoutSession(token, amount, providerOk) /\ checkout'.called
             => /\ amount \in {FULL_PRICE, DEAL_PRICE}
                /\ amount = DEAL_PRICE => DiscountUnlocked(lookupUserByToken(token))]_vars

=============================================================================
